---- MODULE Spec2Model ----
(***************************************************************************)
(* WebsiteScore: POST /api/analyze (server/routes/analyze.js) and the      *)
(* three analyzers it runs (WebsiteQualityAnalyzer, TrustSecurityAnalyzer, *)
(* PageSpeedAnalyzer).                                                     *)
(*                                                                         *)
(* A fetched page is represented by what the analyzers' selectors and      *)
(* substring probes return on it (element counts, attribute values, the    *)
(* set of probe substrings the raw text contains); response headers are a  *)
(* map from the names of the headers that are present to the set of probe  *)
(* substrings each value contains.  Ratios are rounded in exact            *)
(* arithmetic: within the element counts used here the double-precision    *)
(* products of the code hit a .5 only on exactly representable values.     *)
(***************************************************************************)
EXTENDS Integers, Sequences, FiniteSets, TLC

(***************************************************************************)
(* Bounds of the model.                                                    *)
(***************************************************************************)
MaxCount == 2

MaxIdLen == 2

(***************************************************************************)
(* Generic helpers.                                                        *)
(***************************************************************************)

\* Math.round(n / d) for n >= 0, d > 0: halves round up.
Round(n, d) == (2 * n + d) \div (2 * d)

Min(a, b) == IF a < b THEN a ELSE b

Max(a, b) == IF a > b THEN a ELSE b

\* An attribute that is not there (cheerio's attr() returns undefined).
Absent == "<absent>"

\* JavaScript truthiness of an attribute value or a header value.
Truthy(v) == v # Absent /\ v # ""

Check(score, maxScore, status) ==
    [score |-> score, maxScore |-> maxScore, status |-> status]

\* A check together with the value it displays, for the checks whose value
\* the properties read.
ValueCheck(value, score, maxScore, status) ==
    [value |-> value, score |-> score, maxScore |-> maxScore,
     status |-> status]

RECURSIVE SumScores(_, _)
SumScores(checks, keys) ==
    IF keys = {} THEN 0
    ELSE LET k == CHOOSE x \in keys : TRUE
         IN  checks[k].score + SumScores(checks, keys \ {k})

RECURSIVE SumMaxScores(_, _)
SumMaxScores(checks, keys) ==
    IF keys = {} THEN 0
    ELSE LET k == CHOOSE x \in keys : TRUE
         IN  checks[k].maxScore + SumMaxScores(checks, keys \ {k})

\* Category totals that count the checks in good standing only.
Category_GoodOnly(name, checks) ==
    LET good == {k \in DOMAIN checks : checks[k].status = "good"}
    IN [name     |-> name,
        checks   |-> checks,
        score    |-> SumScores(checks, good),
        maxScore |-> SumMaxScores(checks, DOMAIN checks)]

\* The object every analyze<Category>() method returns.
Category(name, checks) ==
    [name     |-> name,
     checks   |-> checks,
     score    |-> SumScores(checks, DOMAIN checks),
     maxScore |-> SumMaxScores(checks, DOMAIN checks)]

RECURSIVE SumCategoryChecks(_, _, _)
SumCategoryChecks(categories, keys, field) ==
    IF keys = {} THEN 0
    ELSE LET k == CHOOSE x \in keys : TRUE
             c == categories[k].checks
             s == IF field = "score" THEN SumScores(c, DOMAIN c)
                                     ELSE SumMaxScores(c, DOMAIN c)
         IN  s + SumCategoryChecks(categories, keys \ {k}, field)

(***************************************************************************)
(* WebsiteQualityAnalyzer                                                  *)
(***************************************************************************)

\* Every heading counted as an H1.
h1Count_AnyHeading(page) == Len(page.headings)

\* this.$('h1').length, from the headings of the page in document order.
h1Count(page) ==
    Cardinality({i \in 1..Len(page.headings) : page.headings[i] = 1})

analyzeSiteQuality(page) ==
    LET titleLength == page.titleLen
        titleScore == IF titleLength >= 30 /\ titleLength <= 60 THEN 20
                      ELSE IF titleLength > 0 /\ titleLength < 30 THEN 16
                      ELSE IF titleLength > 60 THEN 12
                      ELSE 0
        titleStatus == IF titleLength >= 30 /\ titleLength <= 60 THEN "good"
                       ELSE IF titleLength > 0 /\ titleLength < 30 THEN "warning"
                       ELSE IF titleLength > 60 THEN "warning"
                       ELSE "error"
        metaDescLength == page.metaDescLen
        metaDescScore == IF metaDescLength >= 120 /\ metaDescLength <= 160 THEN 15
                         ELSE IF metaDescLength > 0 /\ metaDescLength < 120 THEN 10
                         ELSE IF metaDescLength > 160 THEN 8
                         ELSE 0
        metaDescStatus == IF metaDescLength >= 120 /\ metaDescLength <= 160 THEN "good"
                          ELSE IF metaDescLength > 0 /\ metaDescLength < 120 THEN "warning"
                          ELSE IF metaDescLength > 160 THEN "warning"
                          ELSE "error"
        favicon == Truthy(page.favicon)
        viewport == Truthy(page.viewport)
        hasH1 == h1Count(page) = 1
        headingsScore == IF hasH1 THEN 5 ELSE IF h1Count(page) > 1 THEN 3 ELSE 0
    IN Category("Site Quality",
         [title           |-> Check(titleScore, 20, titleStatus),
          metaDescription |-> Check(metaDescScore, 15, metaDescStatus),
          favicon         |-> Check(IF favicon THEN 5 ELSE 0, 5,
                                    IF favicon THEN "good" ELSE "error"),
          viewport        |-> Check(IF viewport THEN 5 ELSE 0, 5,
                                    IF viewport THEN "good" ELSE "error"),
          headings        |-> Check(headingsScore, 5,
                                    IF hasH1 THEN "good" ELSE "warning")])

\* Math.round(optimizedRatio * 4) with optimizedRatio =
\* allImages > 0 ? (webpImages + pictureElements) / allImages : 1.
imageOptScore(allImages, webpImages, pictureElements) ==
    IF allImages > 0 THEN Round((webpImages + pictureElements) * 4, allImages)
    ELSE Round(4, 1)

analyzeContentQuality(page) ==
    LET wordCount == page.wordCount
        wordCountScore == IF wordCount >= 300 THEN 5
                          ELSE IF wordCount >= 100 THEN 3 ELSE 0
        wordCountStatus == IF wordCount >= 300 THEN "good" ELSE "warning"
        imgScore == imageOptScore(page.allImages, page.webpImages,
                                  page.pictureElements)
    IN Category("Content Quality",
         [wordCount         |-> Check(wordCountScore, 5, wordCountStatus),
          imageOptimization |-> Check(imgScore, 4,
                                      IF imgScore >= 3 THEN "good"
                                      ELSE IF imgScore >= 1 THEN "warning"
                                      ELSE "error")])

\* The shape shared by the Open Graph, Twitter Cards and Technical SEO
\* checks: full points when the value is truthy, else 0 with a warning.
PresenceCheck(present, points) ==
    Check(IF present THEN points ELSE 0, points,
          IF present THEN "good" ELSE "warning")

analyzeOpenGraph(page) ==
    Category("Open Graph",
         [ogTitle       |-> PresenceCheck(Truthy(page.ogTitle), 5),
          ogDescription |-> PresenceCheck(Truthy(page.ogDescription), 5),
          ogImage       |-> PresenceCheck(Truthy(page.ogImage), 5)])

analyzeTwitterCards(page) ==
    Category("Twitter Cards",
         [cardType           |-> PresenceCheck(Truthy(page.twitterCard), 3),
          twitterTitle       |-> PresenceCheck(Truthy(page.twitterTitle), 3),
          twitterDescription |-> PresenceCheck(Truthy(page.twitterDescription), 2),
          twitterImage       |-> PresenceCheck(Truthy(page.twitterImage), 2)])

analyzeTechnicalSeo(page) ==
    Category("Technical SEO",
         [canonical    |-> PresenceCheck(Truthy(page.canonical), 5),
          htmlLang     |-> PresenceCheck(Truthy(page.htmlLang), 3),
          charset      |-> PresenceCheck(Truthy(page.charset), 3),
          schemaJsonLd |-> PresenceCheck(page.jsonLd > 0, 4)])

\* The constructor's "additionalData.x || null": every falsy value, the
\* empty body "" included, becomes null.
OrNull(v) == IF v = "" THEN Absent ELSE v

\* new WebsiteQualityAnalyzer(url, html, headers, additionalData)
WebsiteQualityAnalyzer(page, aux) ==
    [page      |-> page,
     robotsTxt |-> OrNull(aux.robotsTxt),
     sitemap   |-> OrNull(aux.sitemap),
     llmsTxt   |-> OrNull(aux.llmsTxt)]

\* A crawlability category that lists a file's check only when the file was
\* found.
analyzeCrawlability_FoundOnly(self) ==
    LET found == {k \in {"robotsTxt", "sitemap", "llmsTxt"} : self[k] # Absent}
    IN Category("Crawlability",
         [k \in found |-> Check(IF k = "llmsTxt" THEN 3 ELSE 4,
                                IF k = "llmsTxt" THEN 3 ELSE 4, "good")])

analyzeCrawlability(self) ==
    LET hasRobots  == self.robotsTxt # Absent
        hasSitemap == self.sitemap # Absent
        hasLlmsTxt == self.llmsTxt # Absent
    IN Category("Crawlability",
         [robotsTxt |-> Check(IF hasRobots THEN 4 ELSE 0, 4,
                              IF hasRobots THEN "good" ELSE "warning"),
          sitemap   |-> Check(IF hasSitemap THEN 4 ELSE 0, 4,
                              IF hasSitemap THEN "good" ELSE "warning"),
          llmsTxt   |-> Check(IF hasLlmsTxt THEN 3 ELSE 0, 3,
                              IF hasLlmsTxt THEN "good" ELSE "error")])

\* The mean of the category percentages: every category weighs the same,
\* whatever its number of points.
FlatScore_CategoryMean(categories) ==
    LET Sum[K \in SUBSET DOMAIN categories] ==
            IF K = {} THEN 0
            ELSE LET k == CHOOSE x \in K : TRUE
                 IN  Round(100 * categories[k].score, categories[k].maxScore)
                       + Sum[K \ {k}]
    IN Round(Sum[DOMAIN categories], Cardinality(DOMAIN categories))

\* Math.round((earnedPoints / maxPoints) * 100) over the checks of all
\* categories.
FlatScore(categories) ==
    Round(100 * SumCategoryChecks(categories, DOMAIN categories, "score"),
          SumCategoryChecks(categories, DOMAIN categories, "maxScore"))

QualityAnalyze(self) ==
    LET categories ==
          [siteQuality    |-> analyzeSiteQuality(self.page),
           contentQuality |-> analyzeContentQuality(self.page),
           openGraph      |-> analyzeOpenGraph(self.page),
           twitterCards   |-> analyzeTwitterCards(self.page),
           technicalSeo   |-> analyzeTechnicalSeo(self.page),
           crawlability   |-> analyzeCrawlability(self)]
    IN [score |-> FlatScore(categories), maxScore |-> 100,
        categories |-> categories]

(***************************************************************************)
(* TrustSecurityAnalyzer                                                   *)
(***************************************************************************)

\* What stands for the value of a header that arrives with an empty value
\* ("Strict-Transport-Security:"): this.headers[name] is then ''.
EmptyHeader == {"<empty>"}

\* this.headers[name] is truthy: the response carries the header and its
\* value is not the empty string.
HasHeader(headers, name) ==
    name \in DOMAIN headers /\ headers[name] # EmptyHeader

\* (this.headers[name] || '').includes(probe)
HeaderIncludes(headers, name, probe) ==
    HasHeader(headers, name) /\ probe \in headers[name]

\* The two deductions in the other order: a missing preload caps the score
\* at 8 before includeSubDomains is looked at, and a missing
\* includeSubDomains then costs one point more.
hstsScore_PreloadFirst(headers) ==
    LET name == "strict-transport-security"
        s0 == 10
        s1 == IF ~HeaderIncludes(headers, name, "preload") THEN 8 ELSE s0
        s2 == IF ~HeaderIncludes(headers, name, "includeSubDomains")
              THEN s1 - 1 ELSE s1
    IN IF HasHeader(headers, name) THEN s2 ELSE 0

hstsScore(headers) ==
    LET name == "strict-transport-security"
        s0 == 10
        s1 == IF ~HeaderIncludes(headers, name, "includeSubDomains") THEN 7 ELSE s0
        s2 == IF ~HeaderIncludes(headers, name, "preload") THEN Min(s1, 8) ELSE s1
    IN IF HasHeader(headers, name) THEN s2 ELSE 0

analyzeSecurityHeaders(protocol, headers) ==
    LET isHttps == protocol = "https:"
        H(name) == HasHeader(headers, name)
        hsts == H("strict-transport-security")
        permissionsPolicy == H("permissions-policy") \/ H("feature-policy")
        hasSecureCache == HeaderIncludes(headers, "cache-control", "no-store")
                          \/ HeaderIncludes(headers, "cache-control", "private")
        crossOriginCount ==
            (IF H("cross-origin-embedder-policy") THEN 1 ELSE 0)
          + (IF H("cross-origin-opener-policy") THEN 1 ELSE 0)
          + (IF H("cross-origin-resource-policy") THEN 1 ELSE 0)
    IN Category("Security Headers",
         [https             |-> Check(IF isHttps THEN 20 ELSE 0, 20,
                                      IF isHttps THEN "good" ELSE "error"),
          hsts              |-> Check(hstsScore(headers), 10,
                                      IF hsts THEN "good" ELSE "warning"),
          csp               |-> PresenceCheck(H("content-security-policy"), 10),
          frameProtection   |-> PresenceCheck(H("x-frame-options"), 5),
          mimeProtection    |-> PresenceCheck(H("x-content-type-options"), 5),
          xssProtection     |-> PresenceCheck(H("x-xss-protection"), 3),
          referrerPolicy    |-> PresenceCheck(H("referrer-policy"), 5),
          permissionsPolicy |-> PresenceCheck(permissionsPolicy, 5),
          secureCache       |-> Check(IF hasSecureCache THEN 3 ELSE 1, 3,
                                      IF hasSecureCache THEN "good" ELSE "warning"),
          crossOrigin       |-> Check(Min(4, crossOriginCount * 2), 4,
                                      IF crossOriginCount >= 2 THEN "good"
                                      ELSE "warning")])

\* A Domain Trust category whose checks are all informational.
analyzeDomainTrust_Informational ==
    Category("Domain Trust",
         [domainRating |-> Check(0, 0, "warning"),
          domainAge    |-> Check(0, 0, "warning"),
          registrar    |-> Check(0, 0, "warning"),
          country      |-> Check(0, 0, "warning")])

analyzeDomainTrust ==
    Category("Domain Trust",
         [domainRating |-> Check(0, 25, "warning"),
          domainAge    |-> Check(0, 5, "warning"),
          registrar    |-> Check(0, 0, "warning"),
          country      |-> Check(0, 0, "warning")])

\* A provider chain that looks at the server header before the headers of
\* the content delivery networks.
DetectProvider_ServerFirst(headers) ==
    LET server(p) == HeaderIncludes(headers, "server", p)
    IN  IF server("nginx") THEN "Nginx"
        ELSE IF server("apache") THEN "Apache"
        ELSE IF server("netlify") THEN "Netlify"
        ELSE IF HasHeader(headers, "cf-ray") THEN "Cloudflare"
        ELSE IF HasHeader(headers, "x-vercel-id") THEN "Vercel"
        ELSE IF HasHeader(headers, "x-amz-cf-id")
                \/ HeaderIncludes(headers, "x-cache", "cloudfront")
             THEN "AWS CloudFront"
        ELSE IF HeaderIncludes(headers, "via", "google") THEN "Google Cloud"
        ELSE IF server("microsoft") \/ server("iis") THEN "Microsoft IIS"
        ELSE "Unknown"

\* The provider chain of analyzeInfrastructure; the server header is probed
\* in lower case, via and x-cache as they are.
DetectProvider(headers) ==
    LET server(p) == HeaderIncludes(headers, "server", p)
    IN  IF HasHeader(headers, "cf-ray") THEN "Cloudflare"
        ELSE IF HasHeader(headers, "x-vercel-id") THEN "Vercel"
        ELSE IF HasHeader(headers, "x-amz-cf-id")
                \/ HeaderIncludes(headers, "x-cache", "cloudfront")
             THEN "AWS CloudFront"
        ELSE IF server("nginx") THEN "Nginx"
        ELSE IF server("apache") THEN "Apache"
        ELSE IF server("netlify") THEN "Netlify"
        ELSE IF HeaderIncludes(headers, "via", "google") THEN "Google Cloud"
        ELSE IF server("microsoft") \/ server("iis") THEN "Microsoft IIS"
        ELSE "Unknown"

\* The probe standing for a match of /[\d.]+/ in a header value.
VersionProbe == "[0-9.]+"

analyzeInfrastructure(headers) ==
    LET provider == DetectProvider(headers)
        cfRay == HasHeader(headers, "cf-ray")
        xPoweredBy == HasHeader(headers, "x-powered-by")
        hasCDN == \/ cfRay
                  \/ HasHeader(headers, "x-amz-cf-id")
                  \/ HeaderIncludes(headers, "x-cache", "HIT")
                  \/ HeaderIncludes(headers, "x-cache", "cloudfront")
                  \/ HeaderIncludes(headers, "via", "cloudflare")
                  \/ HeaderIncludes(headers, "via", "akamai")
                  \/ HeaderIncludes(headers, "via", "fastly")
        exposesVersion == \/ HeaderIncludes(headers, "server", VersionProbe)
                          \/ HeaderIncludes(headers, "x-powered-by", VersionProbe)
        hasWAF == \/ cfRay
                  \/ HasHeader(headers, "x-sucuri-id")
                  \/ HasHeader(headers, "x-cdn")
                  \/ HeaderIncludes(headers, "server", "cloudflare")
                  \/ HeaderIncludes(headers, "server", "sucuri")
    IN Category("Infrastructure",
         [provider       |-> ValueCheck(provider, 0, 0,
                                        IF provider # "Unknown" THEN "good"
                                        ELSE "warning"),
          cdn            |-> PresenceCheck(hasCDN, 5),
          serverExposure |-> Check(IF exposesVersion THEN 0 ELSE 3, 3,
                                   IF exposesVersion THEN "warning" ELSE "good"),
          poweredBy      |-> Check(IF xPoweredBy THEN 0 ELSE 2, 2,
                                   IF xPoweredBy THEN "warning" ELSE "good"),
          waf            |-> Check(0, 0, IF hasWAF THEN "good" ELSE "warning")])

analyzeTrustIndicators(page) ==
    LET has(p) == p \in page.text
        hasPrivacyPolicy == has("privacy policy") \/ has("privacy-policy")
                            \/ has("/privacy") \/ has("datenschutz")
        hasTerms == has("terms of service") \/ has("terms-of-service")
                    \/ has("terms and conditions") \/ has("/terms") \/ has("tos")
        hasContact == has("contact us") \/ has("contact-us") \/ has("/contact")
                      \/ has("mailto:") \/ has("tel:") \/ has("support@")
                      \/ has("info@")
        hasCookieConsent == has("cookie")
                            /\ (has("consent") \/ has("accept")
                                \/ has("policy") \/ has("banner"))
        hasAbout == has("about us") \/ has("about-us") \/ has("/about")
                    \/ has("our team") \/ has("our story") \/ has("who we are")
        hasAddress == has("address") \/ has("\\d{5}") \/ has("street")
                      \/ has("suite") \/ has("floor")
        hasSocial == has("twitter.com") \/ has("facebook.com")
                     \/ has("linkedin.com") \/ has("instagram.com")
                     \/ has("youtube.com") \/ has("x.com")
        hasTrustBadges == has("ssl") \/ has("secure") \/ has("verified")
                          \/ has("certified") \/ has("trust") \/ has("norton")
                          \/ has("mcafee") \/ has("bbb")
        hasGDPR == has("gdpr") \/ has("data protection") \/ has("data subject")
                   \/ has("right to be forgotten") \/ has("data controller")
    IN Category("Trust Indicators",
         [privacyPolicy   |-> PresenceCheck(hasPrivacyPolicy, 4),
          termsOfService  |-> PresenceCheck(hasTerms, 3),
          contactInfo     |-> PresenceCheck(hasContact, 3),
          cookieConsent   |-> PresenceCheck(hasCookieConsent, 3),
          aboutSection    |-> PresenceCheck(hasAbout, 2),
          physicalAddress |-> PresenceCheck(hasAddress, 2),
          socialMedia     |-> PresenceCheck(hasSocial, 2),
          trustBadges     |-> PresenceCheck(hasTrustBadges, 2),
          gdprCompliance  |-> PresenceCheck(hasGDPR, 2)])

SecurityAnalyze(protocol, headers, page) ==
    LET categories ==
          [securityHeaders |-> analyzeSecurityHeaders(protocol, headers),
           domainTrust     |-> analyzeDomainTrust,
           infrastructure  |-> analyzeInfrastructure(headers),
           trustIndicators |-> analyzeTrustIndicators(page)]
    IN [score |-> FlatScore(categories), maxScore |-> 100,
        categories |-> categories]

(***************************************************************************)
(* PageSpeedAnalyzer                                                       *)
(***************************************************************************)

\* this.loadTime * 1.3 < t, * 0.6 < t and * 1.1 < t for an integer number
\* of milliseconds, in tenths.
lcpTime10(loadTime) == loadTime * 13

fcpTime10(loadTime) == loadTime * 6

speedIndex10(loadTime) == loadTime * 11

analyzePerformance(page, loadTime) ==
    LET lcp == lcpTime10(loadTime)
        lcpScore == IF lcp < 25000 THEN 25 ELSE IF lcp < 40000 THEN 22 ELSE 10
        lcpStatus == IF lcp < 25000 THEN "good"
                     ELSE IF lcp < 40000 THEN "warning" ELSE "error"
        fcp == fcpTime10(loadTime)
        fcpScore == IF fcp < 18000 THEN 10 ELSE IF fcp < 30000 THEN 7 ELSE 3
        fcpStatus == IF fcp < 18000 THEN "good"
                     ELSE IF fcp < 30000 THEN "warning" ELSE "error"
        tbtTime == page.blockingJS * 50
        tbtScore == IF tbtTime > 600 THEN 10
                    ELSE IF tbtTime > 300 THEN 20
                    ELSE IF tbtTime > 150 THEN 25 ELSE 30
        unsizedMedia == (page.allImages - page.imagesWithDimensions)
                        + (page.iframes - page.iframesWithDimensions)
        clsScore == IF unsizedMedia > 5 THEN 10
                    ELSE IF unsizedMedia > 2 THEN 18
                    ELSE IF unsizedMedia > 0 THEN 22 ELSE 25
        si == speedIndex10(loadTime)
        siScore == IF si < 34000 THEN 10 ELSE IF si < 58000 THEN 7 ELSE 3
        siStatus == IF si < 34000 THEN "good"
                    ELSE IF si < 58000 THEN "warning" ELSE "error"
    IN Category("Performance",
         [lcp        |-> Check(lcpScore, 25, lcpStatus),
          fcp        |-> Check(fcpScore, 10, fcpStatus),
          tbt        |-> Check(tbtScore, 30,
                               IF tbtScore >= 25 THEN "good"
                               ELSE IF tbtScore >= 20 THEN "warning" ELSE "error"),
          cls        |-> Check(clsScore, 25,
                               IF clsScore >= 22 THEN "good"
                               ELSE IF clsScore >= 18 THEN "warning" ELSE "error"),
          speedIndex |-> Check(siScore, 10, siStatus)])

\* A ratio check in which an empty selection earns nothing.
RatioScore_NoGuard(part, total, points) ==
    IF total = 0 THEN 0 ELSE Round(part * points, total)

\* total === 0 ? points : Math.round((part / total) * points)
RatioScore(part, total, points) ==
    IF total = 0 THEN points ELSE Round(part * points, total)

\* A status check that takes a document without words for an error page.
httpStatusCheck_ByContent(page) ==
    IF page.wordCount = 0 THEN ValueCheck("404 Not Found", 0, 8, "error")
    ELSE ValueCheck("200 OK", 8, 8, "good")

\* checks.httpStatus: the analyzer holds the document, not the status of the
\* response, and writes the same check for every document.
httpStatusCheck(page) == ValueCheck("200 OK", 8, 8, "good")

analyzeSEO(page) ==
    LET hasTitle == page.titleLen > 0
        hasMetaDesc == page.metaDescLen > 0
        descriptiveLinkScore == RatioScore(page.descriptiveLinks, page.links, 8)
        jsLinks == page.jsLinks
        crawlableScore == IF jsLinks = 0 THEN 8 ELSE Max(0, 8 - jsLinks)
        altScore == RatioScore(page.imagesWithAlt, page.allImages, 8)
        hasHreflang == page.hreflangLinks > 0 \/ page.htmlLang # Absent
        hasCanonical == page.canonicalLinks > 0
    IN Category("SEO",
         [indexable        |-> Check(IF page.noIndex THEN 0 ELSE 31, 31,
                                     IF page.noIndex THEN "error" ELSE "good"),
          hasTitle         |-> Check(IF hasTitle THEN 8 ELSE 0, 8,
                                     IF hasTitle THEN "good" ELSE "error"),
          hasMetaDesc      |-> PresenceCheck(hasMetaDesc, 8),
          httpStatus       |-> httpStatusCheck(page),
          descriptiveLinks |-> Check(descriptiveLinkScore, 8,
                                     IF descriptiveLinkScore >= 6 THEN "good"
                                     ELSE "warning"),
          crawlableLinks   |-> Check(crawlableScore, 8,
                                     IF jsLinks = 0 THEN "good" ELSE "warning"),
          robotsTxt        |-> Check(8, 8, "good"),
          imageAlt         |-> Check(altScore, 8,
                                     IF altScore >= 6 THEN "good" ELSE "warning"),
          hreflang         |-> Check(IF hasHreflang THEN 8 ELSE 4, 8,
                                     IF hasHreflang THEN "good" ELSE "warning"),
          canonical        |-> PresenceCheck(hasCanonical, 8)])

analyzeBestPractices(protocol, page) ==
    LET has(p) == p \in page.text
        isHttps == protocol = "https:"
        hasDeprecated == has("document.write") \/ has("eval(") \/ has("with(")
        hasTrackers == has("google-analytics") \/ has("facebook.com/tr")
                       \/ has("doubleclick.net")
        pasteBlocked == has("onpaste=\"return false\"") \/ has("onpaste=\"false\"")
        hasGeoOnLoad == has("navigator.geolocation.getCurrentPosition")
                        /\ ~has("addEventListener")
        hasNotifOnLoad == has("Notification.requestPermission")
                          /\ ~has("addEventListener")
        aspectRatioScore == RatioScore(page.imagesWithDimensions, page.allImages, 4)
        responsiveImages == page.imagesWithSrcset + page.pictureSources
        hasDoctype == has("<!doctype html")
        hasCharset == Truthy(page.charset)
    IN Category("Best Practices",
         [usesHttps           |-> Check(IF isHttps THEN 19 ELSE 0, 19,
                                        IF isHttps THEN "good" ELSE "error"),
          noDeprecatedApis    |-> Check(IF hasDeprecated THEN 0 ELSE 19, 19,
                                        IF hasDeprecated THEN "warning" ELSE "good"),
          noThirdPartyCookies |-> Check(IF hasTrackers THEN 12 ELSE 19, 19,
                                        IF hasTrackers THEN "warning" ELSE "good"),
          allowsPaste         |-> Check(IF pasteBlocked THEN 0 ELSE 12, 12,
                                        IF pasteBlocked THEN "error" ELSE "good"),
          noGeoOnLoad         |-> Check(IF hasGeoOnLoad THEN 0 ELSE 4, 4,
                                        IF hasGeoOnLoad THEN "warning" ELSE "good"),
          noNotifOnLoad       |-> Check(IF hasNotifOnLoad THEN 0 ELSE 4, 4,
                                        IF hasNotifOnLoad THEN "warning" ELSE "good"),
          imageAspectRatio    |-> Check(aspectRatioScore, 4,
                                        IF aspectRatioScore >= 3 THEN "good"
                                        ELSE "warning"),
          responsiveImages    |-> Check(IF responsiveImages > 0 THEN 4 ELSE 2, 4,
                                        IF responsiveImages > 0 THEN "good"
                                        ELSE "warning"),
          hasDoctype          |-> Check(IF hasDoctype THEN 4 ELSE 0, 4,
                                        IF hasDoctype THEN "good" ELSE "error"),
          hasCharset          |-> PresenceCheck(hasCharset, 4),
          browserErrors       |-> Check(4, 4, "good"),
          devToolsIssues      |-> Check(4, 4, "good")])

\* css-what on the selector `label[for="${id}"]`: the quoted value runs to
\* the first quote that is not escaped by a backslash and must be followed
\* by "]".  A quote inside id ends the value early and what follows is not
\* "]"; a trailing backslash escapes the closing quote and the value never
\* ends.  Both make the selector call throw.
RECURSIVE SelectorThrowsFrom(_, _, _)
SelectorThrowsFrom(id, i, escaped) ==
    IF i > Len(id) THEN escaped
    ELSE IF escaped THEN SelectorThrowsFrom(id, i + 1, FALSE)
    ELSE IF id[i] = "\\" THEN SelectorThrowsFrom(id, i + 1, TRUE)
    ELSE IF id[i] = "\"" THEN TRUE
    ELSE SelectorThrowsFrom(id, i + 1, FALSE)

SelectorThrows(id) == SelectorThrowsFrom(id, 1, FALSE)

\* The attribute value a well-formed selector asks for: escapes removed.
RECURSIVE SelectorValue(_)
SelectorValue(id) ==
    IF id = <<>> THEN <<>>
    ELSE IF id[1] = "\\" /\ Len(id) > 1
         THEN <<id[2]>> \o SelectorValue(SubSeq(id, 3, Len(id)))
    ELSE <<id[1]>> \o SelectorValue(Tail(id))

\* The callback of inputs.filter(): aria-label || placeholder ||
\* (id && $(`label[for="${id}"]`).length > 0).
InputReachesSelector(input) ==
    ~Truthy(input.ariaLabel) /\ ~Truthy(input.placeholder) /\ input.id # <<>>

InputHasLabel(page, input) ==
    \/ Truthy(input.ariaLabel)
    \/ Truthy(input.placeholder)
    \/ (input.id # <<>> /\ SelectorValue(input.id) \in page.labelFor)

formLabelsThrows(page) ==
    \E i \in 1..Len(page.inputs) :
        InputReachesSelector(page.inputs[i]) /\ SelectorThrows(page.inputs[i].id)

inputsWithLabels(page) ==
    Cardinality({i \in 1..Len(page.inputs) : InputHasLabel(page, page.inputs[i])})

\* viewport.includes('user-scalable=no') || viewport.includes('user-scalable=0')
hasUserScalableNo(viewport) ==
    viewport \in {"user-scalable=no", "user-scalable=0",
                  "width=device-width, user-scalable=no"}

\* hasMaxScale && parseFloat(hasMaxScale[1]) < 5
maxScaleTooLow(viewport) ==
    viewport \in {"maximum-scale=1", "width=device-width, maximum-scale=1.0",
                  "maximum-scale=4.9"}

\* /^[a-z]{2}(-[A-Z]{2})?$/.test(langValue)
validLangPattern(langValue) == langValue \in {"en", "de", "en-US", "pt-BR"}

\* A heading order in which a heading may differ from the previous one by
\* one level at most, upwards or downwards.
headingOrderValid_NoJumps(headings) ==
    \A i \in 2..Len(headings) :
        /\ ~(headings[i] > headings[i - 1] + 1)
        /\ ~(headings[i - 1] > headings[i] + 1)

\* The loop over headings[1..] of the heading order check.
headingOrderValid(headings) ==
    \A i \in 2..Len(headings) : ~(headings[i] > headings[i - 1] + 1)

analyzeAccessibility(page) ==
    LET buttonScore == RatioScore(page.buttonsWithText, page.buttons, 5)
        imgAltScore == RatioScore(page.imagesWithAlt, page.allImages, 5)
        labelScore == RatioScore(inputsWithLabels(page), Len(page.inputs), 5)
        viewport == IF Truthy(page.viewport) THEN page.viewport ELSE ""
        restricted == hasUserScalableNo(viewport) \/ maxScaleTooLow(viewport)
        hasTitle == page.titleLen > 0
        hasLang == Truthy(page.htmlLang)
        isValidLang == hasLang /\ validLangPattern(page.htmlLang)
        linkScore == RatioScore(page.linksWithText, page.links, 3)
        listScore == RatioScore(page.validLists, page.lists, 3)
        tablesWithHeaders == page.tableTh > 0 \/ page.tables = 0
        orderValid == headingOrderValid(page.headings)
        hasMain == page.mainLandmarks > 0
        Full(points) == Check(points, points, "good")
        Binary(ok, points, badStatus) ==
            Check(IF ok THEN points ELSE 0, points,
                  IF ok THEN "good" ELSE badStatus)
    IN Category("Accessibility",
         [ariaMatchRoles       |-> Full(5),
          ariaHiddenBody       |-> Binary(~page.bodyHidden, 5, "error"),
          roleAriaRequired     |-> Full(5),
          roleValuesValid      |-> Full(5),
          ariaValuesValid      |-> Full(5),
          ariaNotMisspelled    |-> Full(5),
          buttonNames          |-> Check(buttonScore, 5,
                                         IF buttonScore >= 4 THEN "good"
                                         ELSE "warning"),
          imagesHaveAlt        |-> Check(imgAltScore, 5,
                                         IF imgAltScore >= 4 THEN "good"
                                         ELSE "warning"),
          formLabels           |-> Check(labelScore, 5,
                                         IF labelScore >= 4 THEN "good"
                                         ELSE "warning"),
          viewportScalable     |-> Binary(~restricted, 5, "error"),
          interactiveNames     |-> Full(3),
          ariaAsSpecified      |-> Full(3),
          ariaHiddenFocusable  |-> Binary(page.ariaHiddenWithFocusable = 0, 3,
                                          "error"),
          ariaPermitted        |-> Full(3),
          colorContrast        |-> Full(3),
          docTitle             |-> Binary(hasTitle, 3, "error"),
          htmlLang             |-> Binary(hasLang, 3, "error"),
          htmlLangValid        |-> Binary(isValidLang, 3, "warning"),
          linksDistinguishable |-> Full(3),
          linkNames            |-> Check(linkScore, 3,
                                         IF linkScore >= 2 THEN "good"
                                         ELSE "warning"),
          listStructure        |-> Check(listScore, 3,
                                         IF listScore >= 2 THEN "good"
                                         ELSE "warning"),
          listItemsContained   |-> Binary(page.orphanedLi = 0, 3, "error"),
          noPositiveTabindex   |-> Binary(page.positiveTabindex = 0, 3, "warning"),
          touchTargets         |-> Full(3),
          tableHeaders         |-> Binary(tablesWithHeaders, 3, "warning"),
          headingOrder         |-> Binary(orderValid, 1, "warning"),
          mainLandmark         |-> Binary(hasMain, 1, "warning")])

\* The four categories weighing the same.
WeightedScore_EqualWeights(performance, seo, bestPractices, accessibility) ==
    LET pm == performance.maxScore
        sm == seo.maxScore
        bm == bestPractices.maxScore
        am == accessibility.maxScore
        p == performance.score * 25
        s == seo.score * 25
        b == bestPractices.score * 25
        a == accessibility.score * 25
        whole == (p \div pm) + (s \div sm) + (b \div bm) + (a \div am)
        num == (p % pm) * sm * bm * am + (s % sm) * pm * bm * am
             + (b % bm) * pm * sm * am + (a % am) * pm * sm * bm
        den == pm * sm * bm * am
    IN whole + Cardinality({t \in {1, 3, 5, 7} : 2 * num >= t * den})

\* Math.round(weightedScore), weightedScore being the four ratios times 40,
\* 25, 20 and 15: the whole parts of the four terms, plus the sum of their
\* fractional parts rounded over the common denominator.
WeightedScore(performance, seo, bestPractices, accessibility) ==
    LET pm == performance.maxScore
        sm == seo.maxScore
        bm == bestPractices.maxScore
        am == accessibility.maxScore
        p == performance.score * 40
        s == seo.score * 25
        b == bestPractices.score * 20
        a == accessibility.score * 15
        whole == (p \div pm) + (s \div sm) + (b \div bm) + (a \div am)
        num == (p % pm) * sm * bm * am + (s % sm) * pm * bm * am
             + (b % bm) * pm * sm * am + (a % am) * pm * sm * bm
        den == pm * sm * bm * am
    IN whole + Cardinality({t \in {1, 3, 5, 7} : 2 * num >= t * den})

\* Math.round(categoryScores[i]): the ratio rounded without the factor 100.
CategoryPercent_Fraction(category) == Round(category.score, category.maxScore)

\* Math.round(categoryScores[i] * 100)
CategoryPercent(category) == Round(category.score * 100, category.maxScore)

PageSpeedAnalyze(protocol, page, loadTime) ==
    LET performance   == analyzePerformance(page, loadTime)
        seo           == analyzeSEO(page)
        bestPractices == analyzeBestPractices(protocol, page)
        accessibility == analyzeAccessibility(page)
    IN [score |-> WeightedScore(performance, seo, bestPractices, accessibility),
        maxScore |-> 100,
        performanceScore   |-> CategoryPercent(performance),
        seoScore           |-> CategoryPercent(seo),
        bestPracticesScore |-> CategoryPercent(bestPractices),
        accessibilityScore |-> CategoryPercent(accessibility),
        categories |-> [performance   |-> performance,
                        seo           |-> seo,
                        bestPractices |-> bestPractices,
                        accessibility |-> accessibility]]

(***************************************************************************)
(* The overall score of routes/analyze.js, in IEEE-754 double arithmetic.  *)
(*                                                                         *)
(* A double d is carried as [n, lo, e]: its value is n/20 + (e/10) * u     *)
(* with u = 2^-54, and lo is d/u modulo 2^12.  0.35 is the double          *)
(* 0x16666666666666 * u = 0.35 - 0.4u and 0.30 is 0x13333333333333 * u =   *)
(* 0.30 - 0.2u.  Every product and sum is rounded to 53 significant bits,  *)
(* ties to even; only the low bits of d/u decide the rounding.             *)
(***************************************************************************)
LowBits == 2 ^ 12

RECURSIVE QuantumFrom(_, _, _)
QuantumFrom(n, e, Q) ==
    IF n < 10 * Q \/ (n = 10 * Q /\ e < 0) THEN Q
    ELSE QuantumFrom(n, e, 2 * Q)

\* The spacing, in units of u, of the doubles around n/20 + (e/10)u.
Quantum(n, e) == QuantumFrom(n, e, 1)

RoundToDouble(d) ==
    IF d.n = 0 THEN d
    ELSE LET Q == Quantum(d.n, d.e)
             R == d.lo % Q
             odd == (d.lo % (2 * Q)) >= Q
             adj == IF R = 0 THEN 0
                    ELSE IF 2 * R < Q \/ (2 * R = Q /\ ~odd) THEN 0 - R
                    ELSE Q - R
         IN [n |-> d.n, lo |-> (d.lo + adj) % LowBits, e |-> d.e + 10 * adj]

\* x * 0.35
Times035(x) == RoundToDouble([n |-> 7 * x, lo |-> (x * 1638) % LowBits, e |-> 0 - 4 * x])

\* x * 0.30
Times030(x) == RoundToDouble([n |-> 6 * x, lo |-> (x * 819) % LowBits, e |-> 0 - 2 * x])

DoubleAdd(a, b) ==
    RoundToDouble([n |-> a.n + b.n, lo |-> (a.lo + b.lo) % LowBits, e |-> a.e + b.e])

\* Math.round(d): to the nearest integer, halves up.
MathRound(d) ==
    IF d.n % 20 = 10 THEN (IF d.e >= 0 THEN (d.n \div 20) + 1 ELSE d.n \div 20)
    ELSE Round(d.n, 20)

\* Math.round(quality * 0.35 + security * 0.30 + pageSpeed * 0.35)
OverallScore(quality, security, pageSpeed) ==
    MathRound(DoubleAdd(DoubleAdd(Times035(quality), Times030(security)),
                        Times035(pageSpeed)))

(***************************************************************************)
(* The request handler: router.post('/') and checkFileExists.              *)
(***************************************************************************)

\* req.body.url when the body has no url (undefined, null or "").
NoUrl == [scheme |-> "", host |-> ""]

\* new URL(url): throws unless the text starts with a scheme.
URLParses(url) == url.scheme # ""

\* validUrl.protocol
Protocol(url) == url.scheme \o ":"

\* The scheme test with one scheme too many.
ProtocolAllowed_WithFtp(url) == Protocol(url) \in {"http:", "https:", "ftp:"}

ProtocolAllowed(url) == Protocol(url) \in {"http:", "https:"}

\* validateStatus off by one: 500 itself is let through.
PrimaryStatusAccepted_Upto500(status) == status <= 500

\* validateStatus as strict as axios' default for client errors.
PrimaryStatusAccepted_Below400(status) == status < 400

\* validateStatus of the primary fetch: status < 500.
PrimaryStatusAccepted(status) == status < 500

\* validateStatus of checkFileExists: status === 200.
AuxStatusAccepted(status) == status = 200

AuxPaths == {"/robots.txt", "/sitemap.xml", "/llms.txt"}

\* The value of a checkFileExists promise that rejected.
Rejected == "<rejected>"

\* checkFileExists without its try/catch: a failed request rejects.
checkFileExists_NoCatch(outcome) ==
    IF outcome.kind = "response" /\ AuxStatusAccepted(outcome.status)
    THEN outcome.data ELSE Rejected

\* What checkFileExists returns for a settled request: response.data, or
\* null from the catch block.
checkFileExists(outcome) ==
    IF outcome.kind = "response" /\ AuxStatusAccepted(outcome.status)
    THEN outcome.data ELSE Absent

\* The message of the exception, if any, raised by lines 84-92: on a body
\* that axios parsed into a non-string, this.html.toLowerCase() of
\* analyzeTrustIndicators is a TypeError.
TrustSecurityError(page) ==
    IF ~page.isText THEN "this.html.toLowerCase is not a function" ELSE ""

\* The message of the exception, if any, raised by lines 94-95: a form
\* input's id can make the label selector of analyzeAccessibility
\* malformed.
PageSpeedError(page) ==
    IF formLabelsThrows(page) THEN "Attribute selector didn't terminate" ELSE ""

\* The message of the exception, if any, that the three analyzers raise on
\* a fetched body.
AnalysisError(page) ==
    IF TrustSecurityError(page) # "" THEN TrustSecurityError(page)
    ELSE PageSpeedError(page)

\* Lines 84-133: the three reports and the result object.
BuildResult(url, page, headers, loadTime, auxFiles, analyzedAt) ==
    LET websiteQualityResults ==
            QualityAnalyze(WebsiteQualityAnalyzer(page, auxFiles))
        trustSecurityResults == SecurityAnalyze(Protocol(url), headers, page)
        pageSpeedResults == PageSpeedAnalyze(Protocol(url), page, loadTime)
    IN [url          |-> url,
        analyzedAt   |-> analyzedAt,
        loadTime     |-> loadTime,
        overallScore |-> OverallScore(websiteQualityResults.score,
                                      trustSecurityResults.score,
                                      pageSpeedResults.score),
        sections     |-> [websiteQuality |-> websiteQualityResults,
                          trustSecurity  |-> trustSecurityResults,
                          pageSpeed      |-> pageSpeedResults]]

(***************************************************************************)
(* Inputs: pages, header maps, fetch outcomes.                             *)
(***************************************************************************)

\* What the analyzers see of cheerio.load(''): no element but html, head
\* and body, no attribute, no text.
EmptyPage ==
    [isText |-> TRUE, titleLen |-> 0, metaDescLen |-> 0, favicon |-> Absent,
     viewport |-> Absent, headings |-> <<>>, wordCount |-> 0,
     allImages |-> 0, webpImages |-> 0, pictureElements |-> 0,
     imagesWithAlt |-> 0, imagesWithDimensions |-> 0, imagesWithSrcset |-> 0,
     pictureSources |-> 0, iframes |-> 0, iframesWithDimensions |-> 0,
     ogTitle |-> Absent, ogDescription |-> Absent, ogImage |-> Absent,
     twitterCard |-> Absent, twitterTitle |-> Absent,
     twitterDescription |-> Absent, twitterImage |-> Absent,
     canonical |-> Absent, canonicalLinks |-> 0, htmlLang |-> Absent,
     hreflangLinks |-> 0, charset |-> Absent, jsonLd |-> 0, noIndex |-> FALSE,
     blockingJS |-> 0, links |-> 0, descriptiveLinks |-> 0, jsLinks |-> 0,
     linksWithText |-> 0, buttons |-> 0, buttonsWithText |-> 0,
     inputs |-> <<>>, labelFor |-> {}, bodyHidden |-> FALSE,
     ariaHiddenWithFocusable |-> 0, lists |-> 0, validLists |-> 0,
     orphanedLi |-> 0, positiveTabindex |-> 0, tables |-> 0, tableTh |-> 0,
     mainLandmarks |-> 0, text |-> {}]

\* A page that earns every point a page can earn.
GoodPage ==
    [EmptyPage EXCEPT
       !.titleLen = 45, !.metaDescLen = 140, !.favicon = "/favicon.ico",
       !.viewport = "width=device-width", !.headings = <<1, 2>>,
       !.wordCount = 300,
       !.ogTitle = "t", !.ogDescription = "d", !.ogImage = "i",
       !.twitterCard = "summary", !.twitterTitle = "t",
       !.twitterDescription = "d", !.twitterImage = "i",
       !.canonical = "https://example.com/", !.canonicalLinks = 1,
       !.htmlLang = "en", !.charset = "utf-8", !.jsonLd = 1,
       !.mainLandmarks = 1,
       !.text = {"<!doctype html", "privacy policy", "policy",
                 "terms of service", "contact us", "cookie", "consent",
                 "about us", "address", "twitter.com", "secure", "gdpr"}]

\* A response body that axios parsed as JSON: response.data is not a string.
JsonPage == [EmptyPage EXCEPT !.isText = FALSE]

\* <picture><source type="image/webp"><img src="a.webp"></picture>
PicturePage ==
    [GoodPage EXCEPT !.allImages = 1, !.webpImages = 2, !.pictureElements = 1,
                     !.pictureSources = 1, !.imagesWithAlt = 1,
                     !.imagesWithDimensions = 1]

Input(ariaLabel, placeholder, id) ==
    [ariaLabel |-> ariaLabel, placeholder |-> placeholder, id |-> id]

IdChars == {"x", "\"", "\\"}

Ids == UNION {[1..n -> IdChars] : n \in 0..MaxIdLen}

Counts == 0..MaxCount

ImagePages(base) ==
    {[base EXCEPT !.allImages = a, !.webpImages = w, !.pictureElements = p,
                  !.imagesWithAlt = a, !.imagesWithDimensions = a] :
        a \in Counts, w \in Counts, p \in Counts}
    \cup
    {[base EXCEPT !.allImages = a, !.imagesWithAlt = alt,
                  !.imagesWithDimensions = dim, !.iframes = f] :
        a \in Counts, alt \in Counts, dim \in Counts, f \in {0, MaxCount}}

WellFormedPage(page) ==
    /\ page.imagesWithAlt <= page.allImages
    /\ page.imagesWithDimensions <= page.allImages
    /\ page.imagesWithSrcset <= page.allImages
    /\ page.iframesWithDimensions <= page.iframes
    /\ page.descriptiveLinks <= page.linksWithText
    /\ page.linksWithText <= page.links
    /\ page.jsLinks <= page.links
    /\ page.buttonsWithText <= page.buttons
    /\ page.validLists <= page.lists
    /\ (page.tableTh > 0 => page.tables > 0)
    /\ (page.canonical # Absent => page.canonicalLinks > 0)
    /\ ("privacy policy" \in page.text => "policy" \in page.text)
    /\ ("privacy-policy" \in page.text => "policy" \in page.text)
    /\ ("facebook.com/tr" \in page.text => "facebook.com" \in page.text)

InputPages(base) ==
    {[base EXCEPT !.inputs = <<Input(Absent, Absent, id)>>, !.labelFor = l] :
        id \in Ids, l \in {{}, {<<"x">>}, {<<"\"">>}}}
    \cup
    {[base EXCEPT !.inputs = <<Input(al, ph, <<"\"">>), Input(Absent, Absent, <<>>)>>] :
        al \in {Absent, "", "name"}, ph \in {Absent, "type here"}}

HeadingLevels == 1..3

HeadingPages(base) ==
    {[base EXCEPT !.headings = h] :
        h \in UNION {[1..n -> HeadingLevels] : n \in 0..MaxCount}}

ElementPages(base) ==
    {[base EXCEPT !.links = n, !.linksWithText = t, !.descriptiveLinks = d,
                  !.jsLinks = j] :
        n \in Counts, t \in Counts, d \in Counts, j \in {0, MaxCount}}
    \cup
    {[base EXCEPT !.buttons = n, !.buttonsWithText = t, !.lists = n,
                  !.validLists = v, !.orphanedLi = v, !.positiveTabindex = t] :
        n \in Counts, t \in Counts, v \in Counts}
    \cup
    {[base EXCEPT !.blockingJS = b, !.tables = t, !.tableTh = th,
                  !.bodyHidden = (t = 1), !.ariaHiddenWithFocusable = th] :
        b \in {0, 4, 7, 13}, t \in {0, 1}, th \in {0, 1}}

MetaPages(base) ==
    {[base EXCEPT !.titleLen = t, !.metaDescLen = m] :
        t \in {0, 10, 30, 60, 61}, m \in {0, 119, 120, 160, 161}}
    \cup
    {[base EXCEPT !.viewport = v, !.htmlLang = l, !.wordCount = w,
                  !.noIndex = (w = 100)] :
        v \in {Absent, "", "width=device-width", "user-scalable=no",
               "maximum-scale=1", "maximum-scale=5"},
        l \in {Absent, "", "en", "en-US", "english"},
        w \in {0, 100, 299}}
    \cup
    {[base EXCEPT !.text = t] :
        t \in {{"document.write"}, {"eval(", "with("},
               {"google-analytics", "tos", "mailto:"},
               {"facebook.com/tr", "facebook.com"},
               {"onpaste=\"return false\""},
               {"navigator.geolocation.getCurrentPosition",
                "Notification.requestPermission"},
               {"navigator.geolocation.getCurrentPosition", "addEventListener"},
               {"cookie"}, {"cookie", "banner"}, {"\\d{5}"}, {"x.com", "bbb"},
               {"privacy-policy", "policy", "data controller", "our team"}}}

\* The base page with one Site Quality element changed at a time: title
\* and description lengths around the limits, a favicon link and a viewport
\* meta that are missing, empty or set.
SiteQualityPages(base) ==
    {[base EXCEPT !.titleLen = t] : t \in {0, 1, 29, 30, 60, 61}}
    \cup {[base EXCEPT !.metaDescLen = m] : m \in {0, 119, 120, 160, 161}}
    \cup {[base EXCEPT !.favicon = f, !.viewport = v] :
            f \in {Absent, "", "/favicon.ico"},
            v \in {Absent, "", "width=device-width"}}

Pages ==
    {p \in {EmptyPage, GoodPage, JsonPage, PicturePage}
           \cup ImagePages(GoodPage) \cup InputPages(GoodPage)
           \cup HeadingPages(GoodPage) \cup ElementPages(GoodPage)
           \cup MetaPages(EmptyPage) \cup SiteQualityPages(GoodPage) :
        WellFormedPage(p)}

NoHeaders == [name \in {} |-> {}]

SecurityHeaderNames ==
    {"strict-transport-security", "content-security-policy",
     "x-frame-options", "x-content-type-options", "x-xss-protection",
     "referrer-policy", "permissions-policy", "feature-policy",
     "cache-control", "cross-origin-embedder-policy",
     "cross-origin-opener-policy", "cross-origin-resource-policy"}

InfrastructureHeaderNames ==
    {"server", "via", "cf-ray", "x-vercel-id", "x-amz-cf-id", "x-cache",
     "x-powered-by", "x-sucuri-id", "x-cdn"}

\* Every security header set, HSTS with the given directives.
SecureHeaders(hsts) ==
    [name \in SecurityHeaderNames |->
        IF name = "strict-transport-security" THEN hsts
        ELSE IF name = "cache-control" THEN {"no-store"}
        ELSE {}]

\* The header fingerprints of the provider chain, in the order the chain
\* tests them.
ProviderFingerprints ==
    << <<"cf-ray", "">>, <<"x-vercel-id", "">>, <<"x-amz-cf-id", "">>,
       <<"x-cache", "cloudfront">>, <<"server", "nginx">>,
       <<"server", "apache">>, <<"server", "netlify">>, <<"via", "google">>,
       <<"server", "microsoft">>, <<"server", "iis">> >>

\* The response headers that carry the fingerprints at the given positions
\* of the chain together.
FingerprintHeaders(positions) ==
    LET names == {ProviderFingerprints[i][1] : i \in positions}
    IN [n \in names |->
          {ProviderFingerprints[i][2] :
              i \in {j \in positions : ProviderFingerprints[j][1] = n}}
          \ {""}]

\* Fingerprints occurring together: every fingerprint with all the later
\* ones, and every two of them.
CoOccurringFingerprints ==
    {FingerprintHeaders(i..Len(ProviderFingerprints)) :
        i \in 1..Len(ProviderFingerprints)}
    \cup {FingerprintHeaders({i, j}) : i, j \in 1..Len(ProviderFingerprints)}
    \cup {[n \in {"cf-ray", "server"} |->
              IF n = "server" THEN {"nginx"} ELSE EmptyHeader]}

\* The headers that earn every point of the Security report a header can
\* earn, and the headers that lose every one of them.
ExtremeHeaders ==
    {[n \in SecurityHeaderNames \cup {"cf-ray"} |->
         IF n = "cf-ray" THEN {}
         ELSE SecureHeaders({"includeSubDomains", "preload"})[n]],
     [n \in {"server", "x-powered-by"} |-> {VersionProbe}]}

HeaderMaps ==
    {NoHeaders}
    \cup CoOccurringFingerprints
    \cup ExtremeHeaders
    \cup {SecureHeaders(h) : h \in SUBSET {"includeSubDomains", "preload"}}
    \cup {[n \in {name} |-> {}] :
            name \in SecurityHeaderNames \cup InfrastructureHeaderNames}
    \cup {[n \in {"strict-transport-security"} |-> h] :
            h \in SUBSET {"includeSubDomains", "preload"}}
    \cup {[n \in {"strict-transport-security"} |-> EmptyHeader]}
    \cup {[n \in {"cache-control"} |-> c] : c \in {{"private"}, {"no-store"}}}
    \cup {[n \in {"server"} |-> v] :
            v \in {{"nginx", VersionProbe}, {"apache"}, {"netlify"},
                   {"microsoft", "iis", VersionProbe}, {"cloudflare"}}}
    \cup {[n \in {"cf-ray", "server"} |-> IF n = "server" THEN {"nginx"} ELSE {}],
          [n \in {"x-vercel-id", "x-amz-cf-id"} |-> {}],
          [n \in {"x-cache", "server"} |->
              IF n = "server" THEN {"apache"} ELSE {"cloudfront"}],
          [n \in {"x-cache"} |-> {"HIT"}],
          [n \in {"via", "server"} |->
              IF n = "server" THEN {"iis"} ELSE {"google"}],
          [n \in {"via"} |-> {"fastly"}],
          [n \in {"x-powered-by"} |-> {VersionProbe}],
          [n \in {"cross-origin-embedder-policy",
                  "cross-origin-opener-policy"} |-> {}]}

\* The (body, headers) pairs a primary response can carry.
Bodies ==
    (Pages \X {SecureHeaders({"includeSubDomains", "preload"})})
    \cup ({GoodPage, EmptyPage} \X HeaderMaps)

\* Date.now() - startTime, in milliseconds.
LoadTimes == {400, 2000, 3500, 6000}

Urls ==
    {NoUrl,
     [scheme |-> "", host |-> "example.com"],
     [scheme |-> "ftp", host |-> "example.com"],
     [scheme |-> "mailto", host |-> ""],
     [scheme |-> "http", host |-> "example.com"],
     [scheme |-> "https", host |-> "example.com"]}

PrimaryFailures ==
    {[kind |-> "error", status |-> 0, message |-> m, data |-> EmptyPage,
      headers |-> [name \in {} |-> {}]] :
        m \in {"getaddrinfo ENOTFOUND example.com",
               "timeout of 30000ms exceeded",
               "Maximum number of redirects exceeded"}}

PrimaryStatuses == {200, 204, 301, 404, 499, 500, 503}

\* How a request for an auxiliary file can end; took is the time it lasted,
\* in milliseconds, the timeout of line 12 at most.
AuxOutcomes ==
    {[kind |-> "error", status |-> 0, message |-> "timeout of 5000ms exceeded",
      data |-> "", took |-> 5000]}
    \cup {[kind |-> "error", status |-> 0,
           message |-> "getaddrinfo ENOTFOUND example.com", data |-> "",
           took |-> t] : t \in {40, 4000}}
    \cup {[kind |-> "response", status |-> st, message |-> "", data |-> d,
           took |-> t] :
            st \in {200, 404, 500}, d \in {"", "User-agent: *"},
            t \in {40, 4000}}

(***************************************************************************)
(* State.                                                                  *)
(***************************************************************************)
VARIABLES
    pc,              \* where the handler of the current request stands
    url,             \* req.body.url
    primary,         \* how the primary fetch settled: response or fetchError
    loadTime,        \* Date.now() - startTime
    auxState,        \* per auxiliary path: "idle", "pending" or "settled"
    auxOutcome,      \* per auxiliary path: "none", then "ok" or "failed"
    auxResult,       \* per auxiliary path: what checkFileExists returned
    responses,       \* the responses sent for the current request
    fetchCount,      \* per resource: requests started for the current request
    analysisStarted, \* the handler reached the analyzers (line 84)
    alive,           \* the process has not died of an unhandled rejection
    other,           \* a second request in flight: the state of its handler
    app              \* the state of the client's App component

vars == <<pc, url, primary, loadTime, auxState, auxOutcome, auxResult,
          responses, fetchCount, analysisStarted, alive, other, app>>

Resources == {"primary"} \cup AuxPaths

NoPrimary ==
    [kind |-> "none", status |-> 0, message |-> "", data |-> EmptyPage,
     headers |-> NoHeaders]

\* The handler of a request that has not arrived.
NoRequest ==
    [pc        |-> "idle",
     url       |-> NoUrl,
     primary   |-> NoPrimary,
     loadTime  |-> 0,
     auxState  |-> [path \in AuxPaths |-> "idle"],
     auxResult |-> [path \in AuxPaths |-> Absent],
     responses |-> <<>>]

\* The state of App after its first render: useState('') for url and error,
\* useState(false) for loading, useState(null) for results.  results is
\* kept as a sequence, empty for null; pending counts the axios.post calls
\* that have not settled and target is the url of the last one.
NoApp ==
    [url     |-> NoUrl,
     loading |-> FALSE,
     error   |-> "",
     results |-> <<>>,
     pending |-> 0,
     target  |-> NoUrl]

Init ==
    /\ app = NoApp
    /\ pc = "idle"
    /\ url = NoUrl
    /\ primary = NoPrimary
    /\ loadTime = 0
    /\ auxState = [path \in AuxPaths |-> "idle"]
    /\ auxOutcome = [path \in AuxPaths |-> "none"]
    /\ auxResult = [path \in AuxPaths |-> Absent]
    /\ responses = <<>>
    /\ fetchCount = [r \in Resources |-> 0]
    /\ analysisStarted = FALSE
    /\ alive = TRUE
    /\ other = NoRequest

\* res.status(status).json(body)
Respond(status, body) ==
    /\ responses' = Append(responses, [status |-> status, body |-> body])
    /\ pc' = "responded"

\* A fetch that is issued a second time.
StartFetch_Twice(counts, resource) == [counts EXCEPT ![resource] = @ + 2]

\* axios.get(...) is called on the resource.
StartFetch(counts, resource) == [counts EXCEPT ![resource] = @ + 1]

\* Lines 29-42.
ValidationError(u) ==
    IF u = NoUrl THEN "URL is required"
    ELSE IF ~URLParses(u) \/ ~ProtocolAllowed(u) THEN "Invalid URL format"
    ELSE ""

\* The message of the error axios raises on a status that validateStatus
\* turns down.
AxiosStatusMessage(status) ==
    IF status = 500 THEN "Request failed with status code 500"
    ELSE IF status = 503 THEN "Request failed with status code 503"
    ELSE "Request failed with status code"

\* The message axios rejects the primary fetch with, "" when it resolves.
PrimaryFetchError(outcome) ==
    IF outcome.kind = "error" THEN outcome.message
    ELSE IF ~PrimaryStatusAccepted(outcome.status)
         THEN AxiosStatusMessage(outcome.status)
    ELSE ""

\* The handler without its outer try/catch.
OuterCatch_Unhandled(message) ==
    [handled |-> FALSE,
     status  |-> 500,
     body    |-> [error |-> "Failed to analyze the website", details |-> message]]

\* The outer try/catch, lines 26 and 136-142: the exception is handled and
\* answered.
OuterCatch(message) ==
    [handled |-> TRUE,
     status  |-> 500,
     body    |-> [error |-> "Failed to analyze the website", details |-> message]]

\* An exception is raised inside the handler.  Were it not handled, the
\* handler's promise would reject with nobody listening: no response, and
\* the process ends on the unhandled rejection.
Throw(message) ==
    LET c == OuterCatch(message)
    IN IF c.handled
       THEN Respond(c.status, c.body) /\ UNCHANGED alive
       ELSE pc' = "crashed" /\ alive' = FALSE /\ UNCHANGED responses

\* Promise.race in the place of Promise.all.
AllSettled_Any(states) == \E path \in AuxPaths : states[path] = "settled"

\* Promise.all([...]) is fulfilled.
AllSettled(states) == \A path \in AuxPaths : states[path] = "settled"

\* The handler runs from line 26 to its first await or to a return.
Post(u) ==
    /\ pc = "idle"
    /\ alive
    /\ url' = u
    /\ IF ValidationError(u) # ""
       THEN /\ Respond(400, [error |-> ValidationError(u)])
            /\ UNCHANGED fetchCount
       ELSE /\ pc' = "primary"
            /\ fetchCount' = StartFetch(fetchCount, "primary")
            /\ UNCHANGED responses
    /\ UNCHANGED <<app, primary, loadTime, auxState, auxOutcome, auxResult,
                   analysisStarted, alive, other>>

\* A catch block that answers without returning: the handler goes on to
\* line 72, where response is undefined, and the outer catch answers again.
PrimaryFails_NoReturn(outcome) ==
    /\ pc = "primary"
    /\ PrimaryFetchError(outcome) # ""
    /\ primary' = outcome
    /\ responses' =
          <<[status |-> 400,
             body   |-> [error   |-> "Could not fetch the website",
                         details |-> PrimaryFetchError(outcome)]],
            [status |-> 500,
             body   |-> [error   |-> "Failed to analyze the website",
                         details |-> "Cannot read properties of undefined"]]>>
    /\ pc' = "responded"
    /\ UNCHANGED <<app, url, loadTime, auxState, auxOutcome, auxResult, fetchCount,
                   analysisStarted, alive, other>>

\* The primary fetch rejects: the catch block of lines 64-70.
PrimaryFails(outcome) ==
    /\ pc = "primary"
    /\ PrimaryFetchError(outcome) # ""
    /\ primary' = outcome
    /\ Respond(400, [error   |-> "Could not fetch the website",
                     details |-> PrimaryFetchError(outcome)])
    /\ UNCHANGED <<app, url, loadTime, auxState, auxOutcome, auxResult, fetchCount,
                   analysisStarted, alive, other>>

\* The primary fetch resolves: lines 72-81, up to the await of Promise.all.
PrimarySucceeds(outcome, elapsed) ==
    /\ pc = "primary"
    /\ PrimaryFetchError(outcome) = ""
    /\ primary' = outcome
    /\ loadTime' = elapsed
    /\ auxState' = [path \in AuxPaths |-> "pending"]
    /\ fetchCount' = StartFetch(StartFetch(StartFetch(fetchCount,
                        "/robots.txt"), "/sitemap.xml"), "/llms.txt")
    /\ pc' = "aux"
    /\ UNCHANGED <<app, url, auxOutcome, auxResult, responses, analysisStarted, alive,
                   other>>

\* The request of one checkFileExists call ended well: HTTP 200.
AuxOk(outcome) == outcome.kind = "response" /\ outcome.status = 200

\* A load time that is read from the clock when the analyzers start, the
\* auxiliary files being fetched one after the other: the time each request
\* lasted is counted in.
AuxSettles_OnTheClock(path, outcome) ==
    /\ pc = "aux"
    /\ auxState[path] = "pending"
    /\ auxState' = [auxState EXCEPT ![path] = "settled"]
    /\ auxOutcome' = [auxOutcome EXCEPT
                        ![path] = IF AuxOk(outcome) THEN "ok" ELSE "failed"]
    /\ auxResult' = [auxResult EXCEPT ![path] = checkFileExists(outcome)]
    /\ loadTime' = loadTime + outcome.took
    /\ IF checkFileExists(outcome) = Rejected
       THEN Throw(outcome.message)
       ELSE UNCHANGED <<pc, responses, alive>>
    /\ UNCHANGED <<app, url, primary, fetchCount, analysisStarted, other>>

\* One checkFileExists call settles, outcome.took milliseconds after it was
\* started; the handler does not read the clock again after line 72.  A
\* rejection would reject Promise.all at once and raise at line 77.
AuxSettles(path, outcome) ==
    /\ pc = "aux"
    /\ auxState[path] = "pending"
    /\ auxState' = [auxState EXCEPT ![path] = "settled"]
    /\ auxOutcome' = [auxOutcome EXCEPT
                        ![path] = IF AuxOk(outcome) THEN "ok" ELSE "failed"]
    /\ auxResult' = [auxResult EXCEPT ![path] = checkFileExists(outcome)]
    /\ IF checkFileExists(outcome) = Rejected
       THEN Throw(outcome.message)
       ELSE UNCHANGED <<pc, responses, alive>>
    /\ UNCHANGED <<app, url, primary, loadTime, fetchCount, analysisStarted, other>>

\* The const declarations of one run of the handler (lines 27, 73, 74, 72
\* and 77): url, html, headers, loadTime and the three auxiliary files.
Locals(u, response, elapsed, files) ==
    [url       |-> u,
     html      |-> response.data,
     headers   |-> response.headers,
     loadTime  |-> elapsed,
     robotsTxt |-> files["/robots.txt"],
     sitemap   |-> files["/sitemap.xml"],
     llmsTxt   |-> files["/llms.txt"]]

\* html and headers kept in module-level variables: a run reads what the
\* other run stored there.
Scope_ModuleLevel(own, peer) ==
    IF peer.html # NoPrimary.data \/ peer.headers # NoHeaders
    THEN [own EXCEPT !.html = peer.html, !.headers = peer.headers]
    ELSE own

\* What the names url, html, headers, loadTime, robotsTxt, sitemap and
\* llmsTxt of lines 84-133 refer to in one run of the handler, another run
\* being in flight: the run's own declarations, which are local to the
\* handler function.
Scope(own, peer) == own

\* The load time measured when the result is built, not when the page
\* arrived: it grows with the time the analysis takes place.
Result_LateClock(my, analyzedAt) ==
    BuildResult(my.url, my.html, my.headers, my.loadTime * analyzedAt * 5,
                [robotsTxt |-> my.robotsTxt, sitemap |-> my.sitemap,
                 llmsTxt |-> my.llmsTxt], analyzedAt)

\* The result object of lines 84-133, from the locals of the run.
Result(my, analyzedAt) ==
    BuildResult(my.url, my.html, my.headers, my.loadTime,
                [robotsTxt |-> my.robotsTxt, sitemap |-> my.sitemap,
                 llmsTxt |-> my.llmsTxt], analyzedAt)

\* The locals of this request's handler and of the other request's.
Mine == Locals(url, primary, loadTime, auxResult)

Theirs == Locals(other.url, other.primary, other.loadTime, other.auxResult)

\* Promise.all is fulfilled: lines 83-92, up to the await of the
\* TrustSecurityAnalyzer's analyze().
RunAnalyzers ==
    /\ pc = "aux"
    /\ AllSettled(auxState)
    /\ analysisStarted' = TRUE
    /\ LET message == TrustSecurityError(Scope(Mine, Theirs).html)
       IN IF message # ""
          THEN Throw(message)
          ELSE pc' = "analyzing" /\ UNCHANGED <<responses, alive>>
    /\ UNCHANGED <<app, url, primary, loadTime, auxState, auxOutcome, auxResult,
                   fetchCount, other>>

\* The await of line 92 resumes: lines 94-135, res.json(result) included.
SendResult(now) ==
    /\ pc = "analyzing"
    /\ LET my == Scope(Mine, Theirs)
           message == PageSpeedError(my.html)
       IN IF message # ""
          THEN Throw(message)
          ELSE Respond(200, Result(my, now)) /\ UNCHANGED alive
    /\ UNCHANGED <<app, url, primary, loadTime, auxState, auxOutcome, auxResult,
                   fetchCount, analysisStarted, other>>

\* The request is over; the server waits for the next one.
NextRequest ==
    /\ pc = "responded"
    /\ pc' = "idle"
    /\ url' = NoUrl
    /\ primary' = NoPrimary
    /\ loadTime' = 0
    /\ auxState' = [path \in AuxPaths |-> "idle"]
    /\ auxOutcome' = [path \in AuxPaths |-> "none"]
    /\ auxResult' = [path \in AuxPaths |-> Absent]
    /\ responses' = <<>>
    /\ fetchCount' = [r \in Resources |-> 0]
    /\ analysisStarted' = FALSE
    /\ UNCHANGED <<app, alive, other>>

Response(status, data, headers) ==
    [kind |-> "response", status |-> status, message |-> "", data |-> data,
     headers |-> headers]

\* Every body arrives with status 200; every status arrives with the two
\* base pages.
PrimaryResponses ==
    {Response(200, b[1], b[2]) : b \in Bodies}
    \cup {Response(st, p, NoHeaders) :
            st \in PrimaryStatuses, p \in {GoodPage, EmptyPage}}

\* The load times a response is observed with.
Timings(outcome) ==
    IF outcome.headers = NoHeaders /\ outcome.data \in {GoodPage, EmptyPage}
    THEN LoadTimes ELSE {400}

\* new Date() at line 106, as the number of the clock tick.
Instants == {1, 2}

Next ==
    \/ pc = "idle" /\ \E u \in Urls : Post(u)
    \/ pc = "primary" /\ \E outcome \in PrimaryFailures \cup PrimaryResponses :
          PrimaryFails(outcome)
    \/ pc = "primary" /\ \E outcome \in PrimaryResponses :
          \E elapsed \in Timings(outcome) : PrimarySucceeds(outcome, elapsed)
    \/ pc = "aux" /\ \E path \in AuxPaths, outcome \in AuxOutcomes :
          AuxSettles(path, outcome)
    \/ RunAnalyzers
    \/ pc = "analyzing" /\ \E now \in Instants : SendResult(now)
    \/ NextRequest

\* One request at a time.
Spec == Init /\ [][Next]_vars

(***************************************************************************)
(* Two requests in flight.  The second request is served by the same      *)
(* handler; its run is kept in the record other.  Node runs one handler   *)
(* at a time up to its next await, so the steps of the two runs           *)
(* interleave at the awaits of lines 52, 77 and 92.                       *)
(***************************************************************************)

\* res.status(status).json(body) of the other run.
OtherRespond(req, status, body) ==
    [req EXCEPT !.pc = "responded",
                !.responses = Append(@, [status |-> status, body |-> body])]

\* An exception inside the other run.
OtherThrow(req, message) ==
    LET c == OuterCatch(message)
    IN IF c.handled THEN OtherRespond(req, c.status, c.body)
       ELSE [req EXCEPT !.pc = "crashed"]

\* Lines 26-63 of the other run.
OtherPost(u) ==
    /\ other.pc = "idle"
    /\ alive
    /\ other' = IF ValidationError(u) # ""
                THEN OtherRespond([other EXCEPT !.url = u], 400,
                                  [error |-> ValidationError(u)])
                ELSE [other EXCEPT !.url = u, !.pc = "primary"]
    /\ UNCHANGED <<app, pc, url, primary, loadTime, auxState, auxOutcome, auxResult,
                   responses, fetchCount, analysisStarted, alive>>

\* Lines 64-81 of the other run: its primary fetch rejects or resolves.
OtherPrimarySettles(outcome, elapsed) ==
    /\ other.pc = "primary"
    /\ other' =
          IF PrimaryFetchError(outcome) # ""
          THEN OtherRespond([other EXCEPT !.primary = outcome], 400,
                            [error   |-> "Could not fetch the website",
                             details |-> PrimaryFetchError(outcome)])
          ELSE [other EXCEPT !.primary = outcome, !.loadTime = elapsed,
                             !.auxState = [path \in AuxPaths |-> "pending"],
                             !.pc = "aux"]
    /\ UNCHANGED <<app, pc, url, primary, loadTime, auxState, auxOutcome, auxResult,
                   responses, fetchCount, analysisStarted, alive>>

\* One checkFileExists call of the other run settles.
OtherAuxSettles(path, outcome) ==
    /\ other.pc = "aux"
    /\ other.auxState[path] = "pending"
    /\ LET req == [other EXCEPT !.auxState[path] = "settled",
                                !.auxResult[path] = checkFileExists(outcome)]
       IN other' = IF checkFileExists(outcome) = Rejected
                   THEN OtherThrow(req, outcome.message) ELSE req
    /\ alive' = (alive /\ other'.pc # "crashed")
    /\ UNCHANGED <<app, pc, url, primary, loadTime, auxState, auxOutcome, auxResult,
                   responses, fetchCount, analysisStarted>>

\* Lines 83-92 of the other run.
OtherRunAnalyzers ==
    /\ other.pc = "aux"
    /\ AllSettled(other.auxState)
    /\ LET message == TrustSecurityError(Scope(Theirs, Mine).html)
       IN other' = IF message # "" THEN OtherThrow(other, message)
                   ELSE [other EXCEPT !.pc = "analyzing"]
    /\ alive' = (alive /\ other'.pc # "crashed")
    /\ UNCHANGED <<app, pc, url, primary, loadTime, auxState, auxOutcome, auxResult,
                   responses, fetchCount, analysisStarted>>

\* Lines 94-135 of the other run.
OtherSendResult(now) ==
    /\ other.pc = "analyzing"
    /\ LET my == Scope(Theirs, Mine)
           message == PageSpeedError(my.html)
       IN other' = IF message # "" THEN OtherThrow(other, message)
                   ELSE OtherRespond(other, 200, Result(my, now))
    /\ alive' = (alive /\ other'.pc # "crashed")
    /\ UNCHANGED <<app, pc, url, primary, loadTime, auxState, auxOutcome, auxResult,
                   responses, fetchCount, analysisStarted>>

\* <input id="a\"> on an otherwise complete page.
BadInputPage ==
    [GoodPage EXCEPT !.inputs = <<Input(Absent, Absent, <<"x", "\\">>)>>]

\* The inputs of the two concurrent requests.
PairUrls ==
    {[scheme |-> "ftp", host |-> "example.com"],
     [scheme |-> "https", host |-> "example.com"]}

PairResponses ==
    {Response(200, GoodPage, NoHeaders),
     Response(404, EmptyPage, SecureHeaders({"preload"})),
     Response(200, JsonPage, NoHeaders),
     Response(200, BadInputPage, NoHeaders),
     Response(503, EmptyPage, NoHeaders)}

PairTimings(outcome) ==
    IF outcome.data = GoodPage THEN {400, 6000} ELSE {400}

PairAuxOutcomes ==
    {[kind |-> "error", status |-> 0, message |-> "timeout of 5000ms exceeded",
      data |-> "", took |-> 5000],
     [kind |-> "response", status |-> 200, message |-> "",
      data |-> "User-agent: *", took |-> 40]}

PairNext ==
    \/ pc = "idle" /\ \E u \in PairUrls : Post(u)
    \/ pc = "primary" /\ \E outcome \in PairResponses : PrimaryFails(outcome)
    \/ pc = "primary" /\ \E outcome \in PairResponses :
          \E elapsed \in PairTimings(outcome) : PrimarySucceeds(outcome, elapsed)
    \/ pc = "aux" /\ \E path \in AuxPaths, outcome \in PairAuxOutcomes :
          AuxSettles(path, outcome)
    \/ RunAnalyzers
    \/ pc = "analyzing" /\ \E now \in Instants : SendResult(now)
    \/ other.pc = "idle" /\ \E u \in PairUrls : OtherPost(u)
    \/ other.pc = "primary" /\ \E outcome \in PairResponses :
          \E elapsed \in PairTimings(outcome) :
              OtherPrimarySettles(outcome, elapsed)
    \/ other.pc = "aux" /\ \E path \in AuxPaths, outcome \in PairAuxOutcomes :
          OtherAuxSettles(path, outcome)
    \/ OtherRunAnalyzers
    \/ other.pc = "analyzing" /\ \E now \in Instants : OtherSendResult(now)

\* Two requests, each served once, in every interleaving.
PairSpec == Init /\ [][PairNext]_vars

(***************************************************************************)
(* One request at a time under fair scheduling.                            *)
(***************************************************************************)

\* The responses of the page the fairly scheduled requests fetch: every
\* status with the two base pages, and the two pages an analyzer throws on.
FairResponses ==
    {Response(st, p, NoHeaders) :
        st \in PrimaryStatuses, p \in {GoodPage, EmptyPage}}
    \cup {Response(200, JsonPage, NoHeaders),
          Response(200, BadInputPage, NoHeaders)}

\* A fetch of the request settles: the primary fetch, or one of the three
\* checkFileExists calls.
FetchSettles ==
    \/ \E outcome \in PrimaryFailures \cup FairResponses : PrimaryFails(outcome)
    \/ \E outcome \in FairResponses :
          \E elapsed \in PairTimings(outcome) : PrimarySucceeds(outcome, elapsed)
    \/ \E path \in AuxPaths, outcome \in AuxOutcomes : AuxSettles(path, outcome)

FairNext ==
    \/ pc = "idle" /\ \E u \in Urls : Post(u)
    \/ FetchSettles
    \/ RunAnalyzers
    \/ \E now \in Instants : SendResult(now)
    \/ NextRequest

\* Every fetch settles in the end (axios is given a timeout of 30000 ms for
\* the page and of 5000 ms for each auxiliary file) and the event loop
\* resumes every handler whose await has settled.  SendResult is enabled
\* exactly when pc = "analyzing" and leaves that state, so that weak
\* fairness of SendResult is the last conjunct, told without building a
\* result to decide enabledness.
FairSpec ==
    /\ Init /\ [][FairNext]_vars
    /\ WF_vars(FetchSettles)
    /\ WF_vars(RunAnalyzers)
    /\ []<>(pc # "analyzing")

(***************************************************************************)
(* The client: the App component and the server it posts to.  The text of  *)
(* the input field is kept as [scheme, host]: "example.com" has no scheme, *)
(* " " is the host of a blank input.                                       *)
(***************************************************************************)

\* What the user types into the field.
ClientInputs ==
    {NoUrl,
     [scheme |-> "", host |-> " "],
     [scheme |-> "", host |-> "example.com"],
     [scheme |-> "https", host |-> "example.com"],
     [scheme |-> "ftp", host |-> "example.com"]}

\* url.trim()
Trim(text) == IF text.host = " " THEN [text EXCEPT !.host = ""] ELSE text

\* Lines 151-155: 'https://' is put before a text that starts with neither
\* 'http://' nor 'https://'; new URL('https://ftp://example.com') has the
\* host ftp.
TargetUrl(text) ==
    IF text.scheme \in {"http", "https"} THEN text
    ELSE IF text.scheme = "" THEN [scheme |-> "https", host |-> text.host]
    ELSE [scheme |-> "https", host |-> text.scheme]

\* onChange of the input, which is disabled while loading.
setUrl(text) ==
    /\ ~app.loading
    /\ app' = [app EXCEPT !.url = text]
    /\ UNCHANGED <<pc, url, primary, loadTime, auxState, auxOutcome, auxResult,
                   responses, fetchCount, analysisStarted, alive, other>>

\* onSubmit of the form, whose button is disabled while loading:
\* analyzeWebsite up to its await, lines 143-162.
analyzeWebsite ==
    /\ ~app.loading
    /\ pc = "idle"
    /\ IF Trim(app.url) = NoUrl
       THEN app' = [app EXCEPT !.error = "Please enter a URL"]
       ELSE app' = [app EXCEPT !.loading = TRUE,
                               !.error   = "",
                               !.results = <<>>,
                               !.pending = @ + 1,
                               !.target  = TargetUrl(Trim(app.url))]
    /\ UNCHANGED <<pc, url, primary, loadTime, auxState, auxOutcome, auxResult,
                   responses, fetchCount, analysisStarted, alive, other>>

\* err.response?.data?.error || '...'
ErrorText(body) ==
    IF "error" \in DOMAIN body /\ body.error # "" THEN body.error
    ELSE "Failed to analyze the website. Please try again."

\* axios.post settles with the response of the server: lines 162-168.
PostSettles ==
    /\ app.pending = 1
    /\ pc = "responded"
    /\ LET response == responses[1]
       IN IF response.status = 200
          THEN app' = [app EXCEPT !.results = <<response.body>>,
                                  !.loading = FALSE,
                                  !.pending = @ - 1]
          ELSE app' = [app EXCEPT !.error   = ErrorText(response.body),
                                  !.loading = FALSE,
                                  !.pending = @ - 1]
    /\ UNCHANGED <<pc, url, primary, loadTime, auxState, auxOutcome, auxResult,
                   responses, fetchCount, analysisStarted, alive, other>>

\* axios.post rejects without a response: the server was not reached.
PostFails ==
    /\ app.pending = 1
    /\ pc = "idle"
    /\ app' = [app EXCEPT !.error   = ErrorText([message |-> "Network Error"]),
                          !.loading = FALSE,
                          !.pending = @ - 1]
    /\ UNCHANGED <<pc, url, primary, loadTime, auxState, auxOutcome, auxResult,
                   responses, fetchCount, analysisStarted, alive, other>>

\* What the pages the client asks for answer.
ClientResponses ==
    {Response(200, GoodPage, NoHeaders),
     Response(404, EmptyPage, NoHeaders),
     Response(200, JsonPage, NoHeaders),
     Response(503, EmptyPage, NoHeaders)}

ClientNext ==
    \/ \E text \in ClientInputs : setUrl(text)
    \/ analyzeWebsite
    \/ app.pending = 1 /\ Post(app.target)
    \/ \E outcome \in PrimaryFailures \cup ClientResponses : PrimaryFails(outcome)
    \/ \E outcome \in ClientResponses : PrimarySucceeds(outcome, 400)
    \/ \E path \in AuxPaths, outcome \in PairAuxOutcomes :
          AuxSettles(path, outcome)
    \/ RunAnalyzers
    \/ SendResult(1)
    \/ PostSettles
    \/ PostFails
    \/ app.pending = 0 /\ NextRequest

\* One client and the server.
ClientSpec == Init /\ [][ClientNext]_vars

(***************************************************************************)
(* Properties.                                                             *)
(***************************************************************************)

\* The request was answered with a result.
HasResult ==
    pc = "responded" /\ Len(responses) = 1 /\ responses[1].status = 200

ChecksOf(report) ==
    UNION {{report.categories[c].checks[k] :
               k \in DOMAIN report.categories[c].checks} :
           c \in DOMAIN report.categories}

PrimaryAccepted == primary.kind = "response" /\ primary.status < 500

PrimaryFailed ==
    primary.kind = "error" \/ (primary.kind = "response" /\ primary.status >= 500)

FetchErrorSent ==
    /\ Len(responses) = 1
    /\ responses[1].status = 400
    /\ responses[1].body.error = "Could not fetch the website"

\* C1: every check of every report of a result has 0 <= score <= maxScore.
C1_ChecksWithinMax ==
    HasResult =>
        \A sec \in DOMAIN responses[1].body.sections :
            \A ch \in ChecksOf(responses[1].body.sections[sec]) :
                0 <= ch.score /\ ch.score <= ch.maxScore

\* C2: the three top scores, the four PageSpeed sub-percentages and the
\* overall score of a result all lie in 0..100.
C2_ScoresWithin100 ==
    HasResult =>
        LET r == responses[1].body
            ps == r.sections.pageSpeed
        IN  /\ r.overallScore \in 0..100
            /\ r.sections.websiteQuality.score \in 0..100
            /\ r.sections.trustSecurity.score \in 0..100
            /\ ps.score \in 0..100
            /\ ps.performanceScore \in 0..100
            /\ ps.seoScore \in 0..100
            /\ ps.bestPracticesScore \in 0..100
            /\ ps.accessibilityScore \in 0..100

\* C3: a request without url, or with a url that has no scheme or a scheme
\* other than http/https, is answered with a 400 {error} body; no fetch is
\* ever started for it and no analyzer runs.
C3_InvalidUrlRejected ==
    (pc # "idle" /\ (url = NoUrl \/ url.scheme \notin {"http", "https"})) =>
        /\ pc = "responded"
        /\ Len(responses) = 1
        /\ responses[1].status = 400
        /\ responses[1].body.error \in {"URL is required", "Invalid URL format"}
        /\ \A r \in Resources : fetchCount[r] = 0
        /\ ~analysisStarted

C3_Witness ==
    /\ pc = "responded"
    /\ url.scheme = "ftp"
    /\ Len(responses) = 1
    /\ responses[1].status = 400
    /\ fetchCount["primary"] = 0

\* C4: when the primary fetch fails (error, timeout or 5xx) the request is
\* answered with the 400 fetch error carrying the underlying message, no
\* auxiliary fetch is started and no analyzer runs.
C4_PrimaryFailureIsFinal ==
    PrimaryFailed =>
        /\ pc = "responded"
        /\ FetchErrorSent
        /\ responses[1].body.details =
              (IF primary.kind = "error" THEN primary.message
               ELSE AxiosStatusMessage(primary.status))
        /\ \A path \in AuxPaths :
              fetchCount[path] = 0 /\ auxState[path] = "idle"
        /\ ~analysisStarted

C4_Witness ==
    /\ pc = "responded"
    /\ primary.kind = "response"
    /\ primary.status = 500
    /\ FetchErrorSent

\* C5: the auxiliary fetches start only after the primary fetch succeeded,
\* all three together, and the analyzers start only when all three have
\* settled.
C5_AnalysisAfterAllAux ==
    /\ \A path \in AuxPaths :
          (fetchCount[path] > 0 \/ auxState[path] # "idle") => PrimaryAccepted
    /\ \A p1 \in AuxPaths, p2 \in AuxPaths :
          (auxState[p1] = "idle") <=> (auxState[p2] = "idle")
    /\ analysisStarted => \A path \in AuxPaths : auxState[path] = "settled"
    /\ (pc = "responded" /\ PrimaryAccepted) =>
          \A path \in AuxPaths : auxState[path] = "settled"

C5_Witness ==
    /\ analysisStarted
    /\ HasResult
    /\ auxOutcome["/llms.txt"] = "ok"
    /\ auxOutcome["/robots.txt"] = "failed"
    /\ auxOutcome["/sitemap.xml"] = "failed"

CrawlKey(path) ==
    IF path = "/robots.txt" THEN "robotsTxt"
    ELSE IF path = "/sitemap.xml" THEN "sitemap" ELSE "llmsTxt"

\* C6: a failed auxiliary fetch yields null and never fails the request:
\* the handler goes on to the analyzers, and in the result the file scores
\* 0 as missing.
C6_AuxFailureAbsorbed ==
    \A path \in AuxPaths :
        auxOutcome[path] = "failed" =>
            /\ auxResult[path] = Absent
            /\ pc \in {"aux", "analyzing", "responded"}
            /\ pc = "responded" =>
                  /\ analysisStarted
                  /\ Len(responses) = 1
                  /\ responses[1].status = 500 =>
                        responses[1].body.details = AnalysisError(primary.data)
                  /\ responses[1].status # 500 =>
                        /\ responses[1].status = 200
                        /\ responses[1].body.sections.websiteQuality
                              .categories.crawlability.checks[CrawlKey(path)].score = 0

C6_Witness ==
    /\ HasResult
    /\ \A path \in AuxPaths : auxOutcome[path] = "failed"

\* C7: a primary response fails the fetch exactly when its status is 5xx;
\* with any status below 500 the body is analyzed and the answer is the one
\* the same body, headers and load time get with status 200.
C7_OnlyServerErrorsFail ==
    (pc = "responded" /\ primary.kind = "response") =>
        /\ FetchErrorSent <=> primary.status >= 500
        /\ primary.status < 500 =>
              /\ analysisStarted
              /\ responses =
                   <<IF AnalysisError(primary.data) # ""
                     THEN [status |-> 500,
                           body |-> [error |-> "Failed to analyze the website",
                                     details |-> AnalysisError(primary.data)]]
                     ELSE [status |-> 200,
                           body |-> BuildResult(url, primary.data, primary.headers,
                                       loadTime,
                                       [robotsTxt |-> auxResult["/robots.txt"],
                                        sitemap   |-> auxResult["/sitemap.xml"],
                                        llmsTxt   |-> auxResult["/llms.txt"]],
                                       responses[1].body.analyzedAt)]>>

C7_Witness ==
    /\ HasResult
    /\ primary.kind = "response"
    /\ primary.status = 404

\* C8: an exception raised once the primary fetch has succeeded is answered
\* with the 500 {error, details} body and with nothing else, and the
\* process stays up.
C8_ExceptionAnswered500 ==
    /\ alive
    /\ pc # "crashed"
    /\ (pc = "responded" /\ analysisStarted /\ AnalysisError(primary.data) # "") =>
          responses = <<[status |-> 500,
                         body |-> [error |-> "Failed to analyze the website",
                                   details |-> AnalysisError(primary.data)]]>>

C8_Witness ==
    /\ pc = "responded"
    /\ analysisStarted
    /\ ~primary.data.isText
    /\ Len(responses) = 1
    /\ responses[1].status = 500
    /\ alive

\* C9: a fetched page whose body is text, whatever it contains, is answered
\* with a result: no analyzer raises an exception on it.
C9_TextPageNeverErrors ==
    (pc = "responded" /\ analysisStarted /\ primary.data.isText) =>
        (Len(responses) = 1 /\ responses[1].status = 200)

\* C10: within one request every resource (the primary URL and each
\* auxiliary path) is fetched at most once, failed or not.
C10_NoRetries == \A r \in Resources : fetchCount[r] <= 1

C10_Witness ==
    /\ pc = "responded"
    /\ analysisStarted
    /\ auxOutcome["/robots.txt"] = "failed"
    /\ \A r \in Resources : fetchCount[r] = 1

\* The three reports of a result.
Quality == responses[1].body.sections.websiteQuality

Security == responses[1].body.sections.trustSecurity

PageSpeed == responses[1].body.sections.pageSpeed

Reports == {Quality, Security, PageSpeed}

\* The sum of one field over the checks of a category, check by check.
RECURSIVE CheckTotal(_, _, _)
CheckTotal(checks, keys, field) ==
    IF keys = {} THEN 0
    ELSE LET k == CHOOSE x \in keys : TRUE
         IN  checks[k][field] + CheckTotal(checks, keys \ {k}, field)

\* The sum of one field over the categories of a report.
RECURSIVE CategoryTotal(_, _, _)
CategoryTotal(categories, keys, field) ==
    IF keys = {} THEN 0
    ELSE LET k == CHOOSE x \in keys : TRUE
         IN  categories[k][field] + CategoryTotal(categories, keys \ {k}, field)

\* C12: in every category of every report, score is the sum of the scores
\* of the category's checks and maxScore the sum of their maxScores.
C12_CategoryTotalsExact ==
    HasResult =>
        \A report \in Reports : \A c \in DOMAIN report.categories :
            LET category == report.categories[c]
            IN /\ category.score =
                    CheckTotal(category.checks, DOMAIN category.checks, "score")
               /\ category.maxScore =
                    CheckTotal(category.checks, DOMAIN category.checks, "maxScore")

C12_Witness ==
    /\ HasResult
    /\ Security.categories.securityHeaders.checks.secureCache.score = 1
    /\ Security.categories.securityHeaders.checks.hsts.score = 7
    /\ Security.categories.securityHeaders.score = 28

\* C13: the Quality and the Security top scores are
\* round(100 * total score / total maxScore), the totals taken over all
\* categories without weights; the total maxScore is not 0, and a check
\* whose maxScore is 0 scores 0.
C13_FlatTopScore ==
    HasResult =>
        \A report \in {Quality, Security} :
            LET earned == CategoryTotal(report.categories,
                                        DOMAIN report.categories, "score")
                max == CategoryTotal(report.categories,
                                     DOMAIN report.categories, "maxScore")
            IN /\ max > 0
               /\ report.score = (200 * earned + max) \div (2 * max)
               /\ \A ch \in ChecksOf(report) : ch.maxScore = 0 => ch.score = 0

C13_Witness ==
    /\ HasResult
    /\ Quality.score > 0 /\ Quality.score < 100
    /\ Security.score > 0 /\ Security.score < 100
    /\ Quality.categories.crawlability.score = 0
    /\ Security.categories.domainTrust.score = 0
    /\ \E ch \in ChecksOf(Security) : ch.maxScore = 0

\* round(40 P + 25 S + 20 B + 15 A) for the four ratios score / maxScore of
\* the categories: twice each term is split into whole part and remainder,
\* and floor(2 W + 1) halved.
WeightedRound(P, S, B, A) ==
    LET p == 2 * 40 * P.score
        s == 2 * 25 * S.score
        b == 2 * 20 * B.score
        a == 2 * 15 * A.score
        whole == (p \div P.maxScore) + (s \div S.maxScore)
                   + (b \div B.maxScore) + (a \div A.maxScore)
        den == P.maxScore * S.maxScore * B.maxScore * A.maxScore
        rest == (p % P.maxScore) * (den \div P.maxScore)
              + (s % S.maxScore) * (den \div S.maxScore)
              + (b % B.maxScore) * (den \div B.maxScore)
              + (a % A.maxScore) * (den \div A.maxScore)
        carry == Cardinality({t \in 1..3 : rest >= t * den})
    IN (whole + carry + 1) \div 2

\* C14: the PageSpeed top score is round(40 P + 25 S + 20 B + 15 A) for the
\* ratios P, S, B, A of the Performance, SEO, Best Practices and
\* Accessibility categories, and the four sub-scores are round(100 * ratio).
C14_WeightedPageSpeed ==
    HasResult =>
        LET c == PageSpeed.categories
            Percent(category) ==
                (200 * category.score + category.maxScore)
                    \div (2 * category.maxScore)
        IN /\ 40 + 25 + 20 + 15 = 100
           /\ PageSpeed.score = WeightedRound(c.performance, c.seo,
                                               c.bestPractices, c.accessibility)
           /\ PageSpeed.performanceScore = Percent(c.performance)
           /\ PageSpeed.seoScore = Percent(c.seo)
           /\ PageSpeed.bestPracticesScore = Percent(c.bestPractices)
           /\ PageSpeed.accessibilityScore = Percent(c.accessibility)

C14_Witness ==
    /\ HasResult
    /\ PageSpeed.performanceScore < 100
    /\ PageSpeed.seoScore < PageSpeed.performanceScore
    /\ PageSpeed.bestPracticesScore < 100
    /\ PageSpeed.accessibilityScore < 100
    /\ PageSpeed.bestPracticesScore # PageSpeed.accessibilityScore

\* C15: the overall score of a result is 0.35 quality + 0.30 security +
\* 0.35 pageSpeed, rounded to the nearest integer with halves up, for the
\* three top scores of the result.
C15_OverallIsWeightedRound ==
    HasResult =>
        responses[1].body.overallScore =
            (2 * (7 * Quality.score + 6 * Security.score + 7 * PageSpeed.score)
               + 20) \div 40

\* The Site Quality category of a result and the page it was computed on.
SiteQuality == Quality.categories.siteQuality

\* The title check by the length of the trimmed title.
TitleScoredByLength ==
    LET length == primary.data.titleLen
        title == SiteQuality.checks.title
    IN /\ title.maxScore = 20
       /\ length >= 30 /\ length <= 60 =>
             title.score = 20 /\ title.status = "good"
       /\ length >= 1 /\ length <= 29 =>
             title.score = 16 /\ title.status = "warning"
       /\ length > 60 => title.score = 12 /\ title.status = "warning"
       /\ length = 0 => title.score = 0 /\ title.status = "error"

\* Title, description and H1 are as the full Site Quality score wants them.
TitleDescriptionAndH1Ideal ==
    LET page == primary.data
    IN /\ page.titleLen >= 30 /\ page.titleLen <= 60
       /\ page.metaDescLen >= 120 /\ page.metaDescLen <= 160
       /\ Cardinality({i \in 1..Len(page.headings) : page.headings[i] = 1}) = 1

\* C17 as stated: Site Quality is 50/50 exactly when title and description
\* have ideal lengths, there is one H1, and a favicon link (with an href)
\* and a viewport meta (with a content) are present; the title scores
\* 20/16/12/0 by its length.
C17_SiteQualityFullIffPresent ==
    HasResult =>
        /\ SiteQuality.maxScore = 50
        /\ SiteQuality.score = 50 <=>
              /\ TitleDescriptionAndH1Ideal
              /\ primary.data.favicon # Absent
              /\ primary.data.viewport # Absent
        /\ TitleScoredByLength

\* C17, amended: Site Quality is 50/50 exactly when title and description
\* have ideal lengths, there is one H1, and the favicon link has a
\* non-empty href and the viewport meta a non-empty content; the title
\* scores 20/16/12/0 by its length.
C17_SiteQualityFullIffNonEmpty ==
    HasResult =>
        /\ SiteQuality.maxScore = 50
        /\ SiteQuality.score = 50 <=>
              /\ TitleDescriptionAndH1Ideal
              /\ primary.data.favicon \notin {Absent, ""}
              /\ primary.data.viewport \notin {Absent, ""}
        /\ TitleScoredByLength

C17_Witness ==
    /\ HasResult
    /\ primary.data.titleLen = 45
    /\ primary.data.metaDescLen = 140
    /\ primary.data.favicon = "/favicon.ico"
    /\ primary.data.viewport = "width=device-width"
    /\ Len(primary.data.headings) = 2
    /\ SiteQuality.score = 50

\* The HSTS check of a result against the header of the response, the
\* header counting as there when inResponse holds.
HstsScoredBy(inResponse) ==
    LET name == "strict-transport-security"
        value == primary.headers[name]
        hsts == Security.categories.securityHeaders.checks.hsts
    IN /\ hsts.maxScore = 10
       /\ hsts.score =
            (IF ~inResponse THEN 0
             ELSE IF "includeSubDomains" \in value /\ "preload" \in value THEN 10
             ELSE IF "includeSubDomains" \in value THEN 8
             ELSE 7)

\* C18 as stated: HSTS scores 0 when the header is absent; when the header
\* is present, 10 with both includeSubDomains and preload, 8 with
\* includeSubDomains only, 7 without includeSubDomains.
C18_HstsByPresence ==
    HasResult =>
        HstsScoredBy("strict-transport-security" \in DOMAIN primary.headers)

\* C18, amended: HSTS scores 0 when the header is absent or its value is
\* empty; when the header has a non-empty value, 10 with both
\* includeSubDomains and preload, 8 with includeSubDomains only, 7 without
\* includeSubDomains.
C18_HstsByNonEmptyValue ==
    HasResult =>
        HstsScoredBy(/\ "strict-transport-security" \in DOMAIN primary.headers
                     /\ primary.headers["strict-transport-security"]
                           # EmptyHeader)

C18_Witness ==
    /\ HasResult
    /\ "strict-transport-security" \in DOMAIN primary.headers
    /\ primary.headers["strict-transport-security"] = {"preload"}
    /\ Security.categories.securityHeaders.checks.hsts.score = 7

\* C19: in a result, each of robots.txt, sitemap.xml and llms.txt scores
\* its full points (4, 4, 3) when its fetch was answered with HTTP 200,
\* whatever the body, and 0 when the fetch failed; a missing sitemap has
\* status warning and a missing llms.txt status error.
C19_CrawlabilityByFetch ==
    HasResult =>
        \A path \in AuxPaths :
            LET ch == Quality.categories.crawlability.checks[CrawlKey(path)]
                full == IF path = "/llms.txt" THEN 3 ELSE 4
            IN /\ ch.maxScore = full
               /\ auxOutcome[path] = "ok" => ch.score = full
               /\ auxOutcome[path] = "failed" =>
                     /\ ch.score = 0
                     /\ path = "/sitemap.xml" => ch.status = "warning"
                     /\ path = "/llms.txt" => ch.status = "error"

\* C20: on a page without img elements the four image ratio checks take
\* their full score: Image Optimization 4/4, the SEO image-alt check 8/8,
\* the Accessibility image-alt check 5/5 and the Best Practices aspect
\* ratio check 4/4, whatever else the page holds.
C20_NoImagesFullScore ==
    (HasResult /\ primary.data.allImages = 0) =>
        LET optimization == Quality.categories.contentQuality.checks.imageOptimization
            seoAlt == PageSpeed.categories.seo.checks.imageAlt
            a11yAlt == PageSpeed.categories.accessibility.checks.imagesHaveAlt
            aspect == PageSpeed.categories.bestPractices.checks.imageAspectRatio
        IN /\ optimization.score = 4 /\ optimization.maxScore = 4
           /\ seoAlt.score = 8 /\ seoAlt.maxScore = 8
           /\ a11yAlt.score = 5 /\ a11yAlt.maxScore = 5
           /\ aspect.score = 4 /\ aspect.maxScore = 4

C20_Witness ==
    /\ HasResult
    /\ primary.data.allImages = 0
    /\ primary.data.webpImages > 0
    /\ primary.data.pictureElements > 0

(***************************************************************************)
(* Properties of the reports' fixed shape and of single checks.            *)
(***************************************************************************)

\* The checks of a report, each named by its category and its key.
CheckNames(report) ==
    UNION {{<<c, k>> : k \in DOMAIN report.categories[c].checks} :
           c \in DOMAIN report.categories}

\* The sum of one field over the named checks of a report.
RECURSIVE NamedTotal(_, _, _)
NamedTotal(report, names, field) ==
    IF names = {} THEN 0
    ELSE LET n == CHOOSE x \in names : TRUE
         IN  report.categories[n[1]].checks[n[2]][field]
               + NamedTotal(report, names \ {n}, field)

\* The checks the Quality analyzer writes, category by category.
QualityCheckNames ==
    ({"siteQuality"} \X {"title", "metaDescription", "favicon", "viewport",
                         "headings"})
    \cup ({"contentQuality"} \X {"wordCount", "imageOptimization"})
    \cup ({"openGraph"} \X {"ogTitle", "ogDescription", "ogImage"})
    \cup ({"twitterCards"} \X {"cardType", "twitterTitle",
                               "twitterDescription", "twitterImage"})
    \cup ({"technicalSeo"} \X {"canonical", "htmlLang", "charset",
                               "schemaJsonLd"})
    \cup ({"crawlability"} \X {"robotsTxt", "sitemap", "llmsTxt"})

\* The Quality top score is the rounded percentage of the points of the
\* named checks.
QualityScoredOver(names) ==
    LET earned == NamedTotal(Quality, names, "score")
        max == NamedTotal(Quality, names, "maxScore")
    IN Quality.score = (200 * earned + max) \div (2 * max)

C22_DomainTrustAddsNothing ==
    HasResult =>
        LET domainTrust == Security.categories.domainTrust
        IN /\ DOMAIN domainTrust.checks =
                {"domainRating", "domainAge", "registrar", "country"}
           /\ \A k \in DOMAIN domainTrust.checks :
                /\ domainTrust.checks[k].score = 0
                /\ domainTrust.checks[k].maxScore = 0
           /\ domainTrust.score = 0
           /\ domainTrust.maxScore = 0

\* The provider the priority list names for the headers: the first entry
\* whose fingerprint the headers carry, a header counting when its value is
\* not empty.
ListedProvider(headers) ==
    LET has(name) == name \in DOMAIN headers /\ headers[name] # EmptyHeader
        includes(name, part) == has(name) /\ part \in headers[name]
        list == << <<"Cloudflare", has("cf-ray")>>,
                   <<"Vercel", has("x-vercel-id")>>,
                   <<"AWS CloudFront", has("x-amz-cf-id")
                                       \/ includes("x-cache", "cloudfront")>>,
                   <<"Nginx", includes("server", "nginx")>>,
                   <<"Apache", includes("server", "apache")>>,
                   <<"Netlify", includes("server", "netlify")>>,
                   <<"Google Cloud", includes("via", "google")>>,
                   <<"Microsoft IIS", includes("server", "microsoft")
                                      \/ includes("server", "iis")>> >>
        found == {i \in 1..Len(list) : list[i][2]}
    IN IF found = {} THEN "Unknown"
       ELSE list[CHOOSE i \in found : \A j \in found : i <= j][1]

C24_HttpStatusAlwaysFull ==
    HasResult =>
        PageSpeed.categories.seo.checks.httpStatus =
            [value |-> "200 OK", score |-> 8, maxScore |-> 8, status |-> "good"]

\* A result for a response with status 404 and a document without words.
C24_Witness ==
    /\ HasResult
    /\ primary.status = 404
    /\ primary.data.wordCount = 0
    /\ PageSpeed.categories.seo.checks.httpStatus.value = "200 OK"

\* C25: the heading order check has maxScore 1 and scores 1 exactly when no
\* heading's level exceeds the level of the heading before it by more than
\* one; the first heading is free, any descent is allowed, and a page with
\* no heading or one heading passes.
C25_HeadingOrder ==
    HasResult =>
        LET headings == primary.data.headings
            check == PageSpeed.categories.accessibility.checks.headingOrder
            skips == {i \in 2..Len(headings) :
                        headings[i] - headings[i - 1] > 1}
        IN /\ check.maxScore = 1
           /\ check.score = (IF skips = {} THEN 1 ELSE 0)
           /\ Len(headings) <= 1 => check.score = 1

\* A result for a page that starts below level 1 and descends by two levels.
C25_Witness ==
    /\ HasResult
    /\ Len(primary.data.headings) = 2
    /\ primary.data.headings[1] = 3
    /\ primary.data.headings[2] = 1
    /\ PageSpeed.categories.accessibility.checks.headingOrder.score = 1

(***************************************************************************)
(* Properties of the answers to a request.                                 *)
(***************************************************************************)

\* The kinds of answer a response belongs to.
ResponseKinds(r) ==
    LET error == IF "error" \in DOMAIN r.body THEN r.body.error ELSE ""
    IN {k \in {"validation", "fetch", "internal", "result"} :
          \/ /\ k = "validation"
             /\ r.status = 400
             /\ error \in {"URL is required", "Invalid URL format"}
          \/ /\ k = "fetch"
             /\ r.status = 400
             /\ error = "Could not fetch the website"
          \/ /\ k = "internal"
             /\ r.status = 500
             /\ error = "Failed to analyze the website"
          \/ /\ k = "result"
             /\ r.status = 200
             /\ "sections" \in DOMAIN r.body}

\* At most one response was sent for the request, of exactly one kind, and
\* the handler has ended exactly when it was sent.
AnsweredAtMostOnce ==
    /\ Len(responses) <= 1
    /\ pc = "responded" <=> Len(responses) = 1
    /\ \A i \in 1..Len(responses) :
          Cardinality(ResponseKinds(responses[i])) = 1

\* C26: every request is answered exactly once, by exactly one of a 400
\* validation error, a 400 fetch error, a 500 internal error and a 200
\* result: never two responses, and, every fetch settling or timing out, a
\* request that arrived is answered in the end.
C26_AnsweredExactlyOnce ==
    /\ []AnsweredAtMostOnce
    /\ (pc \in {"primary", "aux", "analyzing"}) ~> (pc = "responded")

\* The primary fetch timed out and the request was answered with the fetch
\* error.
C26_Witness ==
    /\ pc = "responded"
    /\ primary.kind = "error"
    /\ primary.message = "timeout of 30000ms exceeded"
    /\ Len(responses) = 1
    /\ ResponseKinds(responses[1]) = {"fetch"}

\* C27: the maximum total of the Security report is 133 in every result,
\* Domain Rating (0 of 25) and Domain Age (0 of 5) included; the earned total
\* lies between 1 and 103, Secure Caching never scoring below 1; and the top
\* score lies between 1 and 77.
C27_SecurityScoreRange ==
    HasResult =>
        LET names == CheckNames(Security)
            earned == NamedTotal(Security, names, "score")
            max == NamedTotal(Security, names, "maxScore")
            domainTrust == Security.categories.domainTrust.checks
        IN /\ max = 133
           /\ domainTrust.domainRating.score = 0
           /\ domainTrust.domainRating.maxScore = 25
           /\ domainTrust.domainAge.score = 0
           /\ domainTrust.domainAge.maxScore = 5
           /\ Security.categories.securityHeaders.checks.secureCache.score >= 1
           /\ earned >= 1 /\ earned <= 103
           /\ Security.score >= 1 /\ Security.score <= 77

\* A result whose Security report earns every point that can be earned.
C27_Witness ==
    /\ HasResult
    /\ NamedTotal(Security, CheckNames(Security), "score") = 103
    /\ Security.score = 77

\* A result whose Security report earns the point of Secure Caching alone.
C27_LowestReached ==
    /\ HasResult
    /\ NamedTotal(Security, CheckNames(Security), "score") = 1
    /\ Security.score = 1

\* The weighted mean of the four percentages the pageSpeed section exposes.
ScoreFromPercentages ==
    Round(40 * PageSpeed.performanceScore + 25 * PageSpeed.seoScore
            + 20 * PageSpeed.bestPracticesScore
            + 15 * PageSpeed.accessibilityScore, 100)

\* C28 (as stated): the PageSpeed top score is recomputed from the four
\* percentages the report exposes:
\* score = round((40 performanceScore + 25 seoScore + 20 bestPracticesScore
\*                + 15 accessibilityScore) / 100).
C28_ScoreFromPercentages ==
    HasResult => PageSpeed.score = ScoreFromPercentages

\* C28 (amended): the top score is computed from the unrounded ratios of the
\* categories, so that the value recomputed from the four exposed, rounded
\* percentages is the top score or differs from it by one; it is the top
\* score whenever the four ratios are whole percentages.
C28_ScoreWithinOneOfPercentages ==
    HasResult =>
        LET c == PageSpeed.categories
            whole(category) == (100 * category.score) % category.maxScore = 0
        IN /\ PageSpeed.score - ScoreFromPercentages \in {0 - 1, 0, 1}
           /\ (\A k \in DOMAIN c : whole(c[k]))
                => PageSpeed.score = ScoreFromPercentages

\* A result whose top score is not the value recomputed from the exposed
\* percentages.
C28_Witness ==
    /\ HasResult
    /\ PageSpeed.score # ScoreFromPercentages
    /\ PageSpeed.seoScore < 100

(***************************************************************************)
(* Properties of the load time.                                            *)
(***************************************************************************)

\* The load time of the result and the Performance category are those of
\* the page and of the time the primary fetch took.
LoadTimeOfPrimaryFetch ==
    HasResult =>
        /\ loadTime \in LoadTimes
        /\ responses[1].body.loadTime = loadTime
        /\ PageSpeed.categories.performance =
              analyzePerformance(primary.data, loadTime)

\* From the start of the auxiliary fetches to the response, no step changes
\* the load time.
LoadTimeFixed == (pc \in {"aux", "analyzing"}) => loadTime' = loadTime

\* C29: the load time that is reported and that the PageSpeed analyzer
\* receives is the time the primary fetch took: it is set before the
\* auxiliary fetches start, and neither the time these fetches last nor
\* their outcomes change it or any Performance check.
C29_LoadTimeCoversPrimaryOnly ==
    []LoadTimeOfPrimaryFetch /\ [][LoadTimeFixed]_vars

\* A result after a slow primary fetch, one auxiliary file found and the
\* others not.
C29_Witness ==
    /\ HasResult
    /\ loadTime = 3500
    /\ auxOutcome["/robots.txt"] = "ok"
    /\ auxOutcome["/sitemap.xml"] = "failed"
    /\ responses[1].body.loadTime = 3500

(***************************************************************************)
(* Properties of the client (ClientSpec).                                  *)
(***************************************************************************)

\* loading is true exactly while one axios.post call has not settled.
LoadingWhilePending ==
    /\ app.pending \in {0, 1}
    /\ app.loading <=> app.pending = 1

\* C30: the page never shows an error message and a result at the same
\* time, and loading is true exactly while one analyze request is in flight,
\* false again once it has succeeded or failed.
C30_ErrorOrResult ==
    /\ ~(app.error # "" /\ app.results # <<>>)
    /\ LoadingWhilePending

(***************************************************************************)
(* Properties of two requests in flight (PairSpec).                        *)
(***************************************************************************)

\* sent is what the handler answers to a request served alone whose url is
\* u, whose primary fetch ended with outcome after elapsed milliseconds and
\* whose auxiliary fetches returned files.
ServedAlone(u, outcome, elapsed, files, sent) ==
    LET status == IF ValidationError(u) # "" THEN 400
                  ELSE IF PrimaryFetchError(outcome) # "" THEN 400
                  ELSE IF AnalysisError(outcome.data) # "" THEN 500
                  ELSE 200
    IN /\ Len(sent) = 1
       /\ sent[1].status = status
       /\ sent[1].body =
            (IF ValidationError(u) # "" THEN [error |-> ValidationError(u)]
             ELSE IF PrimaryFetchError(outcome) # ""
                  THEN [error   |-> "Could not fetch the website",
                        details |-> PrimaryFetchError(outcome)]
             ELSE IF AnalysisError(outcome.data) # ""
                  THEN [error   |-> "Failed to analyze the website",
                        details |-> AnalysisError(outcome.data)]
             ELSE Result(Locals(u, outcome, elapsed, files),
                         sent[1].body.analyzedAt))

\* C11: with two requests in flight, in every interleaving of their
\* handlers, the answer to each request is the answer the request gets when
\* it is served alone with the same fetch outcomes; neither run ends the
\* process.
C11_StatelessAcrossRequests ==
    /\ pc = "responded" =>
          ServedAlone(url, primary, loadTime, auxResult, responses)
    /\ other.pc = "responded" =>
          ServedAlone(other.url, other.primary, other.loadTime,
                      other.auxResult, other.responses)
    /\ pc # "crashed" /\ other.pc # "crashed" /\ alive

C11_Witness ==
    /\ pc = "responded" /\ other.pc = "responded"
    /\ responses[1].status = 200 /\ other.responses[1].status = 200
    /\ primary.data # other.primary.data
    /\ primary.headers # other.primary.headers
    /\ auxResult # other.auxResult

====
